---- MODULE Spec2Model ----
(***************************************************************************)
(* TokenTracker: the pricing document (data/database.json), its writers    *)
(* (update_pricing_database, save_to_database) and its readers (the cost   *)
(* formulas of calculators.py).                                            *)
(*                                                                         *)
(* Time is counted in whole hours.  A timestamp string is modelled by a    *)
(* record [kind, t]: kind says what the stored JSON value is, t the        *)
(* instant it denotes when it denotes one.                                 *)
(***************************************************************************)
EXTENDS Integers, Sequences, FiniteSets, TLC

\* ------------------------------------------------------------------ bounds

\* The clock stops advancing at MaxTime (hours).
MaxTime == 36

\* ------------------------------------------------------- program constants

PRICING_REFRESH_TTL_HOURS == 24

\* The clock of the system specification advances in steps of half the TTL,
\* so that ages below, equal to and above the TTL all occur.
TickHours == PRICING_REFRESH_TTL_HOURS \div 2

\* Python's None where a number is expected (prices are never negative).
None == -1

Tasks == {"t1", "t2"}

\* ------------------------------------------------------------- timestamps

\* JSON values that may sit under metadata.last_successful_update.
Absent      == [kind |-> "absent", t |-> 0]   \* key not in the dict
Null        == [kind |-> "null", t |-> 0]     \* JSON null
EmptyStr    == [kind |-> "empty", t |-> 0]    \* ""
Garbage     == [kind |-> "garbage", t |-> 0]  \* a string fromisoformat rejects
Number(n)   == [kind |-> "number", t |-> n]   \* a non-zero JSON number
AwareIso(t) == [kind |-> "aware", t |-> t]    \* "....+00:00"
NaiveIso(t) == [kind |-> "naive", t |-> t]    \* no UTC offset

\* datetime.now(timezone.utc).isoformat()
utc_now_isoformat(now) == AwareIso(now)

\* datetime.now().isoformat()
naive_now_isoformat(now) == NaiveIso(now)

\* dict.get(key): an absent key reads as None
DictGet(v) == IF v.kind = "absent" THEN Null ELSE v

\* Python truthiness of a JSON value: None, "" and 0 are falsy.
Falsy(v) == v.kind \in {"null", "empty"} \/ (v.kind = "number" /\ v.t = 0)

\* datetime.fromisoformat(last): the parsed datetime, or the exception.
fromisoformat(v) ==
    CASE v.kind \in {"number", "null"} -> [exc |-> "TypeError", t |-> 0, aware |-> FALSE]
      [] v.kind \in {"garbage", "empty"} -> [exc |-> "ValueError", t |-> 0, aware |-> FALSE]
      [] v.kind = "aware" -> [exc |-> "", t |-> v.t, aware |-> TRUE]
      [] OTHER -> [exc |-> "", t |-> v.t, aware |-> FALSE]

\* should_refresh with `>` for `>=`: an age of exactly the TTL counts as fresh.
should_refresh_Strict(metadata, now) ==
    LET last == DictGet(metadata.last_successful_update)
        parsed == fromisoformat(last)
    IN  IF Falsy(last) THEN [exc |-> "", ret |-> TRUE]
        ELSE IF parsed.exc = "ValueError" THEN [exc |-> "", ret |-> TRUE]
        ELSE IF parsed.exc # "" THEN [exc |-> parsed.exc, ret |-> FALSE]
        ELSE IF ~parsed.aware THEN [exc |-> "TypeError", ret |-> FALSE]
        ELSE [exc |-> "", ret |-> (now - parsed.t > PRICING_REFRESH_TTL_HOURS)]

\* should_refresh(metadata) evaluated at clock value `now`:
\* [exc |-> the uncaught exception or "", ret |-> the returned boolean].
should_refresh(metadata, now) ==
    LET last == DictGet(metadata.last_successful_update)
        parsed == fromisoformat(last)
    IN  IF Falsy(last) THEN [exc |-> "", ret |-> TRUE]
        ELSE IF parsed.exc = "ValueError" THEN [exc |-> "", ret |-> TRUE]
        ELSE IF parsed.exc # "" THEN [exc |-> parsed.exc, ret |-> FALSE]
        ELSE IF ~parsed.aware THEN [exc |-> "TypeError", ret |-> FALSE]
        ELSE [exc |-> "", ret |-> (now - parsed.t >= PRICING_REFRESH_TTL_HOURS)]

\* --------------------------------------------------------- the document

\* A JSON container is a dict or a list; the unused side is empty.
EmptyDict == [k \in {} |-> 0]
DictOf(f) == [kind |-> "dict", dict |-> f, list |-> <<>>]
ListOf(s) == [kind |-> "list", dict |-> EmptyDict, list |-> s]

\* One record of pricing.models / pricing.servers[provider] (spec section 6).
ModelRecord(inp, out, src, at) ==
    [input_per_1m |-> inp, output_per_1m |-> out, currency |-> "USD",
     source |-> src, retrieved_at |-> at]

ServerRecord(base, sto, tra, src, at) ==
    [base_monthly |-> base, storage_gb_price |-> sto, traffic_gb_price |-> tra,
     currency |-> "USD", source |-> src, retrieved_at |-> at]

\* The defaults section (never written by the operations modelled here).
Defaults ==
    [llm_cost |-> [avg_tokens_per_call |-> 2000, days |-> 30, retry_pct |-> 5],
     server_cost |-> [runtime_hours |-> 720, storage_gb |-> 20, traffic_gb |-> 50],
     multi_agent |-> [days |-> 30]]

\* The document the calculators expect on first run: canonical `pricing`,
\* metadata without last_successful_update, no legacy sections.
SeedDocument ==
    [metadata |-> [last_successful_update |-> Absent, currency |-> "USD"],
     pricing |->
        [models |-> DictOf([m \in {"gpt-4o"} |-> ModelRecord(5, 15, "seed", AwareIso(0))]),
         servers |-> DictOf([p \in {"aws"} |->
                        [pl \in {"t2.micro"} |-> ServerRecord(9, 1, 2, "seed", AwareIso(0))]])],
     llm_models |-> EmptyDict,
     cloud_providers |-> EmptyDict,
     defaults |-> Defaults]

\* What is on disk: a complete JSON text of `doc`, or the empty / cut-off
\* text an interrupted write leaves (doc is then the seed, as a placeholder).
Whole(doc) == [text |-> "whole", doc |-> doc]
Truncated  == [text |-> "empty", doc |-> SeedDocument]
CutOff     == [text |-> "partial", doc |-> SeedDocument]

\* json.load answering an unreadable file with the seed document instead of
\* raising (a silent fallback).
_load_database_FallsBack(f) ==
    [exc |-> "", doc |-> f.doc]

\* _load_database / json.load: the document, or JSONDecodeError.
\* pricing_updater.py and calculators.py hold the same three lines and
\* resolve the same path.
_load_database(f) ==
    IF f.text = "whole" THEN [exc |-> "", doc |-> f.doc]
    ELSE [exc |-> "JSONDecodeError", doc |-> SeedDocument]

\* ------------------------------------------------ refresh provider payload

ModelFields  == {"name", "input_per_1m", "output_per_1m"}
ServerFields == {"provider", "plan", "base_monthly"}

\* An entry of payload.models carrying the fields of ModelFields \ missing.
ModelEntry(name, inp, out, missing) ==
    [f \in ModelFields \ missing |->
        CASE f = "name" -> name [] f = "input_per_1m" -> inp [] OTHER -> out]

ServerEntry(provider, plan, base, missing) ==
    [f \in ServerFields \ missing |->
        CASE f = "provider" -> provider [] f = "plan" -> plan [] OTHER -> base]

GoodPayload ==
    [models |-> <<ModelEntry("gpt-4o", 3, 6, {}), ModelEntry("gemini", 1, 2, {})>>,
     servers |-> <<ServerEntry("aws", "t2.micro", 7, {})>>]

BadModelPayload ==
    [models |-> <<ModelEntry("gpt-4o", 3, 6, {}), ModelEntry("gemini", 1, 2, {"output_per_1m"})>>,
     servers |-> <<ServerEntry("aws", "t2.micro", 7, {})>>]

BadServerPayload ==
    [models |-> <<ModelEntry("gpt-4o", 3, 6, {})>>,
     servers |-> <<ServerEntry("aws", "t2.micro", 7, {"base_monthly"})>>]

\* A payload whose `models` and `servers` are JSON objects keyed as the
\* resolvers of calculators.py read them (by name; by provider and plan),
\* not arrays of entries.
KeyedPayload ==
    [keyed |-> TRUE,
     models |-> [m \in {"gpt-4o", "gemini"} |->
                    IF m = "gpt-4o" THEN ModelRecord(3, 6, "google_search", AwareIso(0))
                    ELSE ModelRecord(1, 2, "google_search", AwareIso(0))],
     servers |-> [p \in {"aws"} |->
                    [pl \in {"t2.micro"} |-> ServerRecord(7, 0, 0, "google_search", AwareIso(0))]]]

\* What PricingUpdater.run may return.
Payloads == {GoodPayload, BadModelPayload, BadServerPayload}

\* _normalize_model_entry: ValueError on the first missing required field,
\* else the entry with its defaults filled in.
_normalize_model_entry(entry, now) ==
    IF ModelFields \ DOMAIN entry # {}
    THEN [exc |-> "ValueError", name |-> "",
          rec |-> ModelRecord(0, 0, "", Null)]
    ELSE [exc |-> "", name |-> entry["name"],
          rec |-> ModelRecord(entry["input_per_1m"], entry["output_per_1m"],
                              "google_search", utc_now_isoformat(now))]

_normalize_server_entry(entry, now) ==
    IF ServerFields \ DOMAIN entry # {}
    THEN [exc |-> "ValueError", provider |-> "", plan |-> "",
          rec |-> ServerRecord(0, 0, 0, "", Null)]
    ELSE [exc |-> "", provider |-> entry["provider"], plan |-> entry["plan"],
          rec |-> ServerRecord(entry["base_monthly"], 0, 0,
                               "google_search", utc_now_isoformat(now))]

\* Some entry of the payload lacks a required field.
Incomplete(payload) ==
    \/ \E i \in DOMAIN payload.models : ModelFields \ DOMAIN payload.models[i] # {}
    \/ \E i \in DOMAIN payload.servers : ServerFields \ DOMAIN payload.servers[i] # {}


\* ----------------------------------------------------------- cost formulas
\* Money is counted in units of 1 / (400 * 10^6) dollar, so that the 0.25
\* output ratio and a retry rate given in percent stay whole numbers:
\* dollars = units / 400,000,000.  `days10` is the `days` argument in tenths
\* (5 is 0.5 day); int(days) is days10 \div 10.

Max0(x) == IF x < 0 THEN 0 ELSE x

\* A failed call: the exception and, for _ensure_positive, the field named.
Failure(exc, field) ==
    [exc |-> exc, field |-> field, monthly_cost |-> 0, days |-> 0,
     input_cost |-> 0, output_cost |-> 0, price_per_1m |-> 0,
     pricing_source |-> "", retrieved_at |-> Null]

\* _resolve_model_pricing: `model not in pricing` on a dict tests its keys,
\* on a list its elements (dicts, never equal to the string `model`).
_resolve_model_pricing(f, model) ==
    LET loaded == _load_database(f)
        models == loaded.doc.pricing.models
    IN  IF loaded.exc # "" THEN [exc |-> loaded.exc, rec |-> ModelRecord(0, 0, "", Null)]
        ELSE IF models.kind = "dict" /\ model \in DOMAIN models.dict
        THEN [exc |-> "", rec |-> models.dict[model]]
        ELSE [exc |-> "KeyError", rec |-> ModelRecord(0, 0, "", Null)]

\* _resolve_server_pricing: .get(provider) on a list is an AttributeError.
_resolve_server_pricing(f, provider, plan) ==
    LET loaded == _load_database(f)
        servers == loaded.doc.pricing.servers
        none == ServerRecord(0, 0, 0, "", Null)
    IN  IF loaded.exc # "" THEN [exc |-> loaded.exc, rec |-> none]
        ELSE IF servers.kind # "dict" THEN [exc |-> "AttributeError", rec |-> none]
        ELSE IF provider \in DOMAIN servers.dict /\ plan \in DOMAIN servers.dict[provider]
        THEN [exc |-> "", rec |-> servers.dict[provider][plan]]
        ELSE [exc |-> "KeyError", rec |-> none]

\* estimate_llm_cost with the retries added to the input tokens only.
estimate_llm_cost_RetryOnInputOnly(f, model, avg_tokens_per_call, calls_per_day, days10, include_output, retry_pct) ==
    LET resolved == _resolve_model_pricing(f, model)
        pricing == resolved.rec
        days == days10 \div 10
        retry == Max0(retry_pct)
        total_input_tokens == avg_tokens_per_call * calls_per_day * days
        input_cost == total_input_tokens * (100 + retry) * 4 * pricing.input_per_1m
        output_cost == IF include_output
                       THEN total_input_tokens * 100 * pricing.output_per_1m
                       ELSE 0
    IN  IF resolved.exc # "" THEN Failure(resolved.exc, "")
        ELSE IF avg_tokens_per_call <= 0 THEN Failure("ValueError", "avg_tokens_per_call")
        ELSE IF calls_per_day <= 0 THEN Failure("ValueError", "calls_per_day")
        ELSE IF days10 <= 0 THEN Failure("ValueError", "days")
        ELSE IF days = 0 THEN Failure("ZeroDivisionError", "")
        ELSE [exc |-> "", field |-> "", monthly_cost |-> input_cost + output_cost,
              days |-> days, input_cost |-> input_cost, output_cost |-> output_cost,
              price_per_1m |-> pricing.input_per_1m,
              pricing_source |-> pricing.source, retrieved_at |-> pricing.retrieved_at]

\* estimate_llm_cost with _ensure_positive testing `value < 0`.
estimate_llm_cost_AcceptsZero(f, model, avg_tokens_per_call, calls_per_day, days10, include_output, retry_pct) ==
    LET resolved == _resolve_model_pricing(f, model)
        pricing == resolved.rec
        days == days10 \div 10
        retry == Max0(retry_pct)
        total_input_tokens == avg_tokens_per_call * calls_per_day * days
        input_cost == total_input_tokens * (100 + retry) * 4 * pricing.input_per_1m
        output_cost == IF include_output
                       THEN total_input_tokens * (100 + retry) * pricing.output_per_1m
                       ELSE 0
    IN  IF resolved.exc # "" THEN Failure(resolved.exc, "")
        ELSE IF avg_tokens_per_call < 0 THEN Failure("ValueError", "avg_tokens_per_call")
        ELSE IF calls_per_day < 0 THEN Failure("ValueError", "calls_per_day")
        ELSE IF days10 <= 0 THEN Failure("ValueError", "days")
        ELSE IF days = 0 THEN Failure("ZeroDivisionError", "")
        ELSE [exc |-> "", field |-> "", monthly_cost |-> input_cost + output_cost,
              days |-> days, input_cost |-> input_cost, output_cost |-> output_cost,
              price_per_1m |-> pricing.input_per_1m,
              pricing_source |-> pricing.source, retrieved_at |-> pricing.retrieved_at]

estimate_llm_cost(f, model, avg_tokens_per_call, calls_per_day, days10, include_output, retry_pct) ==
    LET resolved == _resolve_model_pricing(f, model)
        pricing == resolved.rec
        days == days10 \div 10
        retry == Max0(retry_pct)
        total_input_tokens == avg_tokens_per_call * calls_per_day * days
        input_cost == total_input_tokens * (100 + retry) * 4 * pricing.input_per_1m
        output_cost == IF include_output
                       THEN total_input_tokens * (100 + retry) * pricing.output_per_1m
                       ELSE 0
    IN  IF resolved.exc # "" THEN Failure(resolved.exc, "")
        ELSE IF avg_tokens_per_call <= 0 THEN Failure("ValueError", "avg_tokens_per_call")
        ELSE IF calls_per_day <= 0 THEN Failure("ValueError", "calls_per_day")
        ELSE IF days10 <= 0 THEN Failure("ValueError", "days")
        ELSE IF days = 0 THEN Failure("ZeroDivisionError", "")
        ELSE [exc |-> "", field |-> "", monthly_cost |-> input_cost + output_cost,
              days |-> days, input_cost |-> input_cost, output_cost |-> output_cost,
              price_per_1m |-> pricing.input_per_1m,
              pricing_source |-> pricing.source, retrieved_at |-> pricing.retrieved_at]

\* estimate_server_cost with the daily cost taken over the days of runtime.
estimate_server_cost_DailyByRuntime(f, provider, plan_or_type, runtime_hours, storage_gb, traffic_gb) ==
    LET resolved == _resolve_server_pricing(f, provider, plan_or_type)
        pricing == resolved.rec
        storage_cost == Max0(storage_gb) * pricing.storage_gb_price * 720
        traffic_cost == Max0(traffic_gb) * pricing.traffic_gb_price * 720
        adjusted_base == pricing.base_monthly * runtime_hours
    IN  IF resolved.exc # "" THEN Failure(resolved.exc, "")
        ELSE IF runtime_hours <= 0 THEN Failure("ValueError", "runtime_hours")
        ELSE [exc |-> "", field |-> "",
              monthly_cost |-> adjusted_base + storage_cost + traffic_cost,
              days |-> runtime_hours \div 24, input_cost |-> 0, output_cost |-> 0,
              base_cost |-> adjusted_base, storage_cost |-> storage_cost,
              traffic_cost |-> traffic_cost,
              price_per_1m |-> pricing.base_monthly,
              pricing_source |-> pricing.source, retrieved_at |-> pricing.retrieved_at]

\* estimate_server_cost; monthly_cost in units of 1/720 dollar.
estimate_server_cost(f, provider, plan_or_type, runtime_hours, storage_gb, traffic_gb) ==
    LET resolved == _resolve_server_pricing(f, provider, plan_or_type)
        pricing == resolved.rec
        storage_cost == Max0(storage_gb) * pricing.storage_gb_price * 720
        traffic_cost == Max0(traffic_gb) * pricing.traffic_gb_price * 720
        adjusted_base == pricing.base_monthly * runtime_hours
    IN  IF resolved.exc # "" THEN Failure(resolved.exc, "")
        ELSE IF runtime_hours <= 0 THEN Failure("ValueError", "runtime_hours")
        ELSE [exc |-> "", field |-> "",
              monthly_cost |-> adjusted_base + storage_cost + traffic_cost,
              days |-> 30, input_cost |-> 0, output_cost |-> 0,
              base_cost |-> adjusted_base, storage_cost |-> storage_cost,
              traffic_cost |-> traffic_cost,
              price_per_1m |-> pricing.base_monthly,
              pricing_source |-> pricing.source, retrieved_at |-> pricing.retrieved_at]


\* ------------------------------------------------------------------- state

VARIABLES
    file,        \* data/database.json as it is on disk
    now,         \* the wall clock, in hours
    op,          \* op[p]: the operation task p is running, "" when idle
    pc,          \* pc[p]: where task p is in its operation
    force,       \* force[p]: the `force` argument of p's update_pricing_database
    key,         \* key[p]: the arguments of p's call, in the order of its signature
    database,    \* database[p]: p's local `database` / `db` dict
    metadata,    \* metadata[p]: p's local `metadata` dict (the argument of should_refresh)
    outcome,     \* outcome[p]: the exception p's call raised or the status it returned
    result,      \* result[p]: what p's cost formula returned
    before,      \* before[p]: what was on disk when p's call began (history)
    called,      \* called[p]: p's call has invoked PricingUpdater.run (history)
    received,    \* received[p]: the payload PricingUpdater.run returned to p
    wrote,       \* wrote[p]: p's call has opened the file for writing (history)
    multi        \* multi[p]: the arguments and locals of p's estimate_multi_agent_cost

vars == <<file, now, op, pc, force, key, database, metadata, outcome, result, before, called, received, wrote, multi>>

NoPayload == [models |-> <<>>, servers |-> <<>>]

\* The locals of estimate_multi_agent_cost at its entry (lines 146-149).
Locals(agents, days) ==
    [agents |-> agents, days |-> days, breakdown |-> <<>>, total |-> 0,
     metadata_snapshot |-> EmptyDict]

Init ==
    /\ file = Whole(SeedDocument)
    /\ now = 0
    /\ op = [p \in Tasks |-> ""]
    /\ pc = [p \in Tasks |-> "idle"]
    /\ force = [p \in Tasks |-> FALSE]
    /\ key = [p \in Tasks |-> <<>>]
    /\ database = [p \in Tasks |-> SeedDocument]
    /\ metadata = [p \in Tasks |-> SeedDocument.metadata]
    /\ outcome = [p \in Tasks |-> ""]
    /\ result = [p \in Tasks |-> Failure("", "")]
    /\ before = [p \in Tasks |-> Whole(SeedDocument)]
    /\ called = [p \in Tasks |-> FALSE]
    /\ received = [p \in Tasks |-> NoPayload]
    /\ wrote = [p \in Tasks |-> FALSE]
    /\ multi = [p \in Tasks |-> Locals(<<>>, 0)]

\* No call is in progress.
Quiescent == \A q \in Tasks : pc[q] = "idle"

\* Time passes.
Tick ==
    /\ now + TickHours <= MaxTime
    /\ now' = now + TickHours
    /\ UNCHANGED <<file, op, pc, force, key, database, metadata, outcome, result, before, called, received, wrote, multi>>

\* Task p enters operation `name` with arguments k; a caller that runs its
\* calls one at a time (`alone`) does so when no call is in progress.
Enter(p, name, k, alone) ==
    /\ pc[p] = "idle"
    /\ alone => Quiescent
    /\ op' = [op EXCEPT ![p] = name]
    /\ key' = [key EXCEPT ![p] = k]
    /\ before' = [before EXCEPT ![p] = file]

\* ------------------------------------------------- update_pricing_database

\* Line 131 with the second `not` dropped.
SkipsRefresh_Inverted(f, stale) == ~f /\ stale

\* The early return of line 131: `not force and not should_refresh(metadata)`.
SkipsRefresh(f, stale) == ~f /\ ~stale

\* The refreshed document built without the sections save_to_database wrote.
Refreshed_DropsLegacy(db, meta, payload, t) ==
    [db EXCEPT !.metadata = [meta EXCEPT !.last_successful_update = utc_now_isoformat(t)],
               !.pricing = IF "keyed" \in DOMAIN payload
                           THEN [models |-> DictOf(payload.models),
                                 servers |-> DictOf(payload.servers)]
                           ELSE [models |-> ListOf(payload.models),
                                 servers |-> ListOf(payload.servers)],
               !.llm_models = EmptyDict, !.cloud_providers = EmptyDict]

\* Lines 135-139: the local dict after the provider returned `payload`
\* ({**metadata, "last_successful_update": ...} keeps metadata's other keys).
Refreshed(db, meta, payload, t) ==
    [db EXCEPT !.metadata = [meta EXCEPT !.last_successful_update = utc_now_isoformat(t)],
               !.pricing = IF "keyed" \in DOMAIN payload
                           THEN [models |-> DictOf(payload.models),
                                 servers |-> DictOf(payload.servers)]
                           ELSE [models |-> ListOf(payload.models),
                                 servers |-> ListOf(payload.servers)]]

\* Lines 128-134: load, freshness check, and either the early return or the
\* call of the provider.
update_pricing_database(p, f, alone) ==
    LET loaded == _load_database(file)
        fresh == should_refresh(loaded.doc.metadata, now)
        raised == IF loaded.exc # "" THEN loaded.exc
                  ELSE IF ~f THEN fresh.exc ELSE ""
    IN  /\ Enter(p, "update_pricing_database", <<f>>, alone)
        /\ force' = [force EXCEPT ![p] = f]
        /\ IF raised # ""
           THEN /\ pc' = [pc EXCEPT ![p] = "failed"]
                /\ outcome' = [outcome EXCEPT ![p] = raised]
                /\ UNCHANGED <<database, metadata, called>>
           ELSE /\ database' = [database EXCEPT ![p] = loaded.doc]
                /\ metadata' = [metadata EXCEPT ![p] = loaded.doc.metadata]
                /\ IF SkipsRefresh(f, fresh.ret)
                   THEN /\ pc' = [pc EXCEPT ![p] = "done"]
                        /\ outcome' = [outcome EXCEPT ![p] = "returned"]
                        /\ UNCHANGED called
                   ELSE /\ pc' = [pc EXCEPT ![p] = "calling"]
                        /\ called' = [called EXCEPT ![p] = TRUE]
                        /\ UNCHANGED outcome
        /\ UNCHANGED <<file, now, result, received, wrote, multi>>

\* Line 134 returns; lines 135-139 stamp the local dict and put the payload
\* under `pricing`.
ProviderReturns(p, payload) ==
    /\ op[p] = "update_pricing_database" /\ pc[p] = "calling"
    /\ received' = [received EXCEPT ![p] = payload]
    /\ database' = [database EXCEPT ![p] = Refreshed(database[p], metadata[p], payload, now)]
    /\ pc' = [pc EXCEPT ![p] = "write"]
    /\ UNCHANGED <<file, now, op, force, key, metadata, outcome, result, before, called, wrote, multi>>

\* The stamp of lines 135-138 taken and written before the provider is
\* known to have succeeded.
ProviderFails_AfterStamp(p) ==
    /\ op[p] = "update_pricing_database" /\ pc[p] = "calling"
    /\ file' = Whole([database[p] EXCEPT
            !.metadata.last_successful_update = utc_now_isoformat(now)])
    /\ pc' = [pc EXCEPT ![p] = "failed"]
    /\ outcome' = [outcome EXCEPT ![p] = "RefreshError"]
    /\ UNCHANGED <<now, op, force, key, database, metadata, result, before, called, received, wrote, multi>>

\* Line 134 raises (the provider failed or timed out): the exception
\* propagates out of update_pricing_database.
ProviderFails(p) ==
    /\ op[p] = "update_pricing_database" /\ pc[p] = "calling"
    /\ pc' = [pc EXCEPT ![p] = "failed"]
    /\ outcome' = [outcome EXCEPT ![p] = "RefreshError"]
    /\ UNCHANGED <<file, now, op, force, key, database, metadata, result, before, called, received, wrote, multi>>

\* should_refresh called on its own (it is one of the agent's tools) with a
\* metadata dict of the caller's.
CallShouldRefresh(p, meta, alone) ==
    LET r == should_refresh(meta, now)
    IN  /\ Enter(p, "should_refresh", <<meta>>, alone)
        /\ metadata' = [metadata EXCEPT ![p] = meta]
        /\ pc' = [pc EXCEPT ![p] = IF r.exc = "" THEN "done" ELSE "failed"]
        /\ outcome' = [outcome EXCEPT ![p] =
                IF r.exc # "" THEN r.exc ELSE IF r.ret THEN "True" ELSE "False"]
        /\ UNCHANGED <<file, now, force, database, result, called, received, wrote, multi>>

\* --------------------------------------------------------- save_to_database

\* dict[k] = v
Put(d, k, v) == [x \in DOMAIN d \cup {k} |-> IF x = k THEN v ELSE d[x]]

\* Lines 82-94: the local dict with the LLM entry stored.
WithLlmModel(db, identifier, price_input, price_output, t) ==
    [db EXCEPT !.llm_models = Put(db.llm_models, identifier,
        [price_input |-> price_input, price_output |-> price_output,
         currency |-> "USD", unit |-> "per_1m_tokens",
         last_updated |-> naive_now_isoformat(t), source |-> "manual_entry"])]

\* Lines 117-133: the local dict with the provider's "default" plan stored.
WithCloudProvider(db, identifier, price_base, t) ==
    LET plans == IF identifier \in DOMAIN db.cloud_providers
                 THEN db.cloud_providers[identifier] ELSE EmptyDict
        entry == [price_base |-> price_base, price_storage |-> 0, price_traffic |-> 0,
                  currency |-> "USD", unit |-> "per_month",
                  last_updated |-> naive_now_isoformat(t), source |-> "manual_entry"]
    IN  [db EXCEPT !.cloud_providers =
            Put(db.cloud_providers, identifier, Put(plans, "default", entry))]

\* Lines 45-94 and 110-133: load, validate, store the entry in the local dict.
\* Every exception is caught (line 154) and returned as status "error".
save_to_database(p, identifier, data_type, price_input, price_output, price_base, alone) ==
    LET loaded == _load_database(file)
        invalid == \/ loaded.exc # ""
                   \/ data_type \notin {"llm_model", "cloud_provider"}
                   \/ data_type = "llm_model" /\ (price_input = None \/ price_output = None)
                   \/ data_type = "cloud_provider" /\ price_base = None
    IN  /\ Enter(p, "save_to_database", <<identifier, data_type>>, alone)
        /\ IF invalid
           THEN /\ pc' = [pc EXCEPT ![p] = "done"]
                /\ outcome' = [outcome EXCEPT ![p] = "status:error"]
                /\ UNCHANGED database
           ELSE /\ pc' = [pc EXCEPT ![p] = "write"]
                /\ database' = [database EXCEPT ![p] =
                        IF data_type = "llm_model"
                        THEN WithLlmModel(loaded.doc, identifier, price_input, price_output, now)
                        ELSE WithCloudProvider(loaded.doc, identifier, price_base, now)]
                /\ UNCHANGED outcome
        /\ UNCHANGED <<file, now, force, metadata, result, called, received, wrote, multi>>

\* ------------------------------------------- writing the file (both writers)

\* open(DATABASE_PATH, "w"): the file is truncated as it is opened
\* (_write_database line 24; save_to_database lines 97 and 136).
OpenForWrite(p) ==
    /\ pc[p] = "write"
    /\ file' = Truncated
    /\ wrote' = [wrote EXCEPT ![p] = TRUE]
    /\ pc' = [pc EXCEPT ![p] = "dumping"]
    /\ UNCHANGED <<now, op, force, key, database, metadata, outcome, result, before, called, received, multi>>

\* json.dump(...) and the close of the file complete
\* (_write_database line 25; save_to_database lines 98 and 137).
DumpCompletes(p) ==
    /\ pc[p] = "dumping"
    /\ file' = Whole(database[p])
    /\ pc' = [pc EXCEPT ![p] = "done"]
    /\ outcome' = [outcome EXCEPT ![p] =
            IF op[p] = "save_to_database" THEN "status:success" ELSE "returned"]
    /\ UNCHANGED <<now, op, force, key, database, metadata, result, before, called, received, wrote, multi>>

\* json.dump(...) raises part-way (an I/O error, a value json cannot encode):
\* what was written so far stays on disk.  update_pricing_database lets the
\* exception out; save_to_database catches it and returns status "error".
DumpFails(p) ==
    /\ pc[p] = "dumping"
    /\ file' = CutOff
    /\ pc' = [pc EXCEPT ![p] = "failed"]
    /\ outcome' = [outcome EXCEPT ![p] =
            IF op[p] = "save_to_database" THEN "status:error" ELSE "OSError"]
    /\ UNCHANGED <<now, op, force, key, database, metadata, result, before, called, received, wrote, multi>>

\* ------------------------------------------------------------ cost formulas

\* estimate_llm_cost with _load_database opening the file in mode "w".
EstimateLlm_OpensForWrite(p, model, avg_tokens_per_call, calls_per_day, days10, include_output, retry_pct, alone) ==
    /\ Enter(p, "estimate_llm_cost",
              <<model, avg_tokens_per_call, calls_per_day, days10, include_output, retry_pct>>, alone)
    /\ file' = Truncated
    /\ result' = [result EXCEPT ![p] = Failure("JSONDecodeError", "")]
    /\ outcome' = [outcome EXCEPT ![p] = "JSONDecodeError"]
    /\ pc' = [pc EXCEPT ![p] = "failed"]
    /\ UNCHANGED <<now, force, database, metadata, called, received, wrote, multi>>

\* A call of estimate_llm_cost: it loads the file once and returns or raises.
EstimateLlm(p, model, avg_tokens_per_call, calls_per_day, days10, include_output, retry_pct, alone) ==
    LET r == estimate_llm_cost(file, model, avg_tokens_per_call, calls_per_day,
                               days10, include_output, retry_pct)
    IN  /\ Enter(p, "estimate_llm_cost",
              <<model, avg_tokens_per_call, calls_per_day, days10, include_output, retry_pct>>, alone)
        /\ result' = [result EXCEPT ![p] = r]
        /\ outcome' = [outcome EXCEPT ![p] = IF r.exc = "" THEN "returned" ELSE r.exc]
        /\ pc' = [pc EXCEPT ![p] = IF r.exc = "" THEN "done" ELSE "failed"]
        /\ UNCHANGED <<file, now, force, database, metadata, called, received, wrote, multi>>

\* A call of estimate_server_cost.
EstimateServer(p, provider, plan, runtime_hours, storage_gb, traffic_gb, alone) ==
    LET r == estimate_server_cost(file, provider, plan, runtime_hours, storage_gb, traffic_gb)
    IN  /\ Enter(p, "estimate_server_cost",
              <<provider, plan, runtime_hours, storage_gb, traffic_gb>>, alone)
        /\ result' = [result EXCEPT ![p] = r]
        /\ outcome' = [outcome EXCEPT ![p] = IF r.exc = "" THEN "returned" ELSE r.exc]
        /\ pc' = [pc EXCEPT ![p] = IF r.exc = "" THEN "done" ELSE "failed"]
        /\ UNCHANGED <<file, now, force, database, metadata, called, received, wrote, multi>>

\* ------------------------------------------------ estimate_multi_agent_cost

AgentFields == {"name", "model", "avg_tokens_per_call", "calls_per_day"}

\* An agent definition carrying the fields of AgentFields \ missing.
AgentEntry(name, model, avg_tokens_per_call, calls_per_day, missing) ==
    [f \in AgentFields \ missing |->
        CASE f = "name" -> name [] f = "model" -> model
          [] f = "avg_tokens_per_call" -> avg_tokens_per_call [] OTHER -> calls_per_day]

\* Lines 153-156: the ValueError whose message lists the fields of `missing`.
MissingFields(missing) ==
    Failure("ValueError", "agent") @@ [missing |-> missing]

\* dict.setdefault(k, v)
SetDefault(d, k, v) == IF k \in DOMAIN d THEN d ELSE Put(d, k, v)

\* The running total replaced by the agent's cost (`total =` for `total +=`).
Accumulate_OverwritesTotal(m, agent, llm_result) ==
    [m EXCEPT
        !.breakdown = Append(@, [name |-> agent["name"], cost |-> llm_result.monthly_cost]),
        !.total = llm_result.monthly_cost,
        !.metadata_snapshot = SetDefault(@, agent["model"],
                [retrieved_at |-> llm_result.retrieved_at,
                 source |-> llm_result.pricing_source])]

\* The breakdown entry inserted at the front (insert(0, ...) for append).
Accumulate_Prepends(m, agent, llm_result) ==
    [m EXCEPT
        !.breakdown = <<[name |-> agent["name"], cost |-> llm_result.monthly_cost]>> \o @,
        !.total = @ + llm_result.monthly_cost,
        !.metadata_snapshot = SetDefault(@, agent["model"],
                [retrieved_at |-> llm_result.retrieved_at,
                 source |-> llm_result.pricing_source])]

\* The provenance stored by assignment (snapshot[model] = ... for setdefault).
Accumulate_OverwritesSnapshot(m, agent, llm_result) ==
    [m EXCEPT
        !.breakdown = Append(@, [name |-> agent["name"], cost |-> llm_result.monthly_cost]),
        !.total = @ + llm_result.monthly_cost,
        !.metadata_snapshot = Put(@, agent["model"],
                [retrieved_at |-> llm_result.retrieved_at,
                 source |-> llm_result.pricing_source])]

\* Lines 167-180: the locals after the agent's estimate was obtained.
Accumulate(m, agent, llm_result) ==
    [m EXCEPT
        !.breakdown = Append(@, [name |-> agent["name"], cost |-> llm_result.monthly_cost]),
        !.total = @ + llm_result.monthly_cost,
        !.metadata_snapshot = SetDefault(@, agent["model"],
                [retrieved_at |-> llm_result.retrieved_at,
                 source |-> llm_result.pricing_source])]

\* calculate_cost_estimate answering success with the fallback cost of 0
\* where the formula raised (the exception swallowed).
Respond_ZeroOnFailure(r) ==
    [status |-> "success",
     monthly_cost |-> IF r.exc # "" THEN 0
                      ELSE IF "total_monthly_cost" \in DOMAIN r THEN r.total_monthly_cost
                      ELSE r.monthly_cost,
     raw_result |-> r]

\* calculate_cost_estimate, lines 47, 59-63 and 72-75: the breakdown dict
\* built from the formula's result.  The comprehension over the agents
\* assigns name after name, so a later agent replaces an earlier one of the
\* same name.
Breakdown(r) ==
    IF "agents" \in DOMAIN r
    THEN [name \in {r.agents[i].name : i \in DOMAIN r.agents} |->
            LET last == CHOOSE i \in DOMAIN r.agents :
                            /\ r.agents[i].name = name
                            /\ \A j \in DOMAIN r.agents : r.agents[j].name = name => j <= i
            IN  r.agents[last].cost]
    ELSE IF "base_cost" \in DOMAIN r
    THEN [k \in {"base_plan", "storage", "traffic"} |->
            CASE k = "base_plan" -> r.base_cost [] k = "storage" -> r.storage_cost
              [] OTHER -> r.traffic_cost]
    ELSE [k \in {"llm_cost"} |-> r.monthly_cost]

\* calculate_cost_estimate, lines 83-102: the answer made of what the
\* formula returned or raised (r.exc).  The success answer takes
\* monthly_cost, else total_monthly_cost, else 0.0 from the formula's result.
Respond(r) ==
    IF r.exc # "" THEN [status |-> "error", message |-> r.exc]
    ELSE [status |-> "success",
          monthly_cost |-> IF "monthly_cost" \in DOMAIN r THEN r.monthly_cost
                           ELSE IF "total_monthly_cost" \in DOMAIN r THEN r.total_monthly_cost
                           ELSE 0,
          breakdown |-> Breakdown(r),
          raw_result |-> r]

\* A formula ends with r (returned, or raised when r.exc is set): called
\* directly, the exception leaves the call; called by calculate_cost_estimate
\* (`wrapped`), the call returns Respond(r).
Ends(p, wrapped, r) ==
    /\ pc' = [pc EXCEPT ![p] = IF wrapped \/ r.exc = "" THEN "done" ELSE "failed"]
    /\ outcome' = [outcome EXCEPT ![p] =
            IF wrapped THEN (IF r.exc = "" THEN "status:success" ELSE "status:error")
            ELSE IF r.exc = "" THEN "returned" ELSE r.exc]
    /\ result' = [result EXCEPT ![p] = IF wrapped THEN Respond(r) ELSE r]

Wrapped(p) == op[p] = "calculate_cost_estimate"

\* Lines 143-146: the checks before the loop.
CheckAgents(agents, days10) ==
    IF agents = <<>> THEN Failure("ValueError", "agents")
    ELSE IF days10 <= 0 THEN Failure("ValueError", "days")
    ELSE Failure("", "")

\* Lines 143-149: the checks before the loop.  `days` becomes int(days).
EstimateMultiAgent(p, agents, days10, alone) ==
    LET raised == CheckAgents(agents, days10)
    IN  /\ Enter(p, "estimate_multi_agent_cost", <<agents, days10>>, alone)
        /\ IF raised.exc # ""
           THEN /\ pc' = [pc EXCEPT ![p] = "failed"]
                /\ outcome' = [outcome EXCEPT ![p] = raised.exc]
                /\ result' = [result EXCEPT ![p] = raised]
                /\ UNCHANGED multi
           ELSE /\ pc' = [pc EXCEPT ![p] = "agent"]
                /\ multi' = [multi EXCEPT ![p] = Locals(agents, days10 \div 10)]
                /\ UNCHANGED <<outcome, result>>
        /\ UNCHANGED <<file, now, force, database, metadata, called, received, wrote>>

\* The loop with a failing agent skipped (try / except: continue) instead of
\* the exception leaving the call.
PriceAgent_SkipsFailing(p) ==
    LET m == multi[p]
        agent == m.agents[Len(m.breakdown) + 1]
        bad == AgentFields \ DOMAIN agent # {}
        llm_result == IF bad THEN Failure("ValueError", "agent")
                      ELSE estimate_llm_cost(file, agent["model"], agent["avg_tokens_per_call"],
                                             agent["calls_per_day"], m.days * 10, TRUE, 0)
        next == [m EXCEPT
                    !.breakdown = Append(@, [name |-> IF bad THEN "" ELSE agent["name"],
                                             cost |-> llm_result.monthly_cost]),
                    !.total = @ + llm_result.monthly_cost]
    IN  /\ op[p] = "estimate_multi_agent_cost" /\ pc[p] = "agent"
        /\ multi' = [multi EXCEPT ![p] = next]
        /\ IF Len(next.breakdown) = Len(m.agents)
           THEN /\ pc' = [pc EXCEPT ![p] = "done"]
                /\ outcome' = [outcome EXCEPT ![p] = "returned"]
                /\ result' = [result EXCEPT ![p] =
                        [exc |-> "", field |-> "",
                         total_monthly_cost |-> next.total, days |-> m.days,
                         agents |-> next.breakdown,
                         metadata |-> next.metadata_snapshot]]
           ELSE UNCHANGED <<pc, outcome, result>>
        /\ UNCHANGED <<file, now, op, force, key, database, metadata, before, called, received, wrote>>

\* Lines 151-187: one turn of the loop.  estimate_llm_cost loads the file
\* anew for every agent; an exception leaves the whole call; after the last
\* agent the totals are returned.
PriceAgent(p) ==
    LET m == multi[p]
        agent == m.agents[Len(m.breakdown) + 1]
        llm_result == estimate_llm_cost(file, agent["model"], agent["avg_tokens_per_call"],
                                        agent["calls_per_day"], m.days * 10,
                                        IF "include_output" \in DOMAIN agent
                                        THEN agent["include_output"] ELSE TRUE,
                                        IF "retry_rate" \in DOMAIN agent
                                        THEN agent["retry_rate"] ELSE 0)
        raised == IF AgentFields \ DOMAIN agent # {} THEN MissingFields(AgentFields \ DOMAIN agent)
                  ELSE IF llm_result.exc # "" THEN Failure(llm_result.exc, llm_result.field)
                  ELSE Failure("", "")
        next == Accumulate(m, agent, llm_result)
    IN  /\ op[p] \in {"estimate_multi_agent_cost", "calculate_cost_estimate"} /\ pc[p] = "agent"
        /\ IF raised.exc # ""
           THEN /\ Ends(p, Wrapped(p), raised)
                /\ UNCHANGED multi
           ELSE /\ multi' = [multi EXCEPT ![p] = next]
                /\ IF Len(next.breakdown) = Len(m.agents)
                   THEN Ends(p, Wrapped(p),
                             [exc |-> "", field |-> "",
                              total_monthly_cost |-> next.total, days |-> m.days,
                              agents |-> next.breakdown,
                              metadata |-> next.metadata_snapshot])
                   ELSE UNCHANGED <<pc, outcome, result>>
        /\ UNCHANGED <<file, now, op, force, key, database, metadata, before, called, received, wrote>>

\* ------------------------------------------------------------ _load_defaults

\* tools/collect_llm_information.py lines 21-28: the defaults used when the
\* document cannot be read.
HardcodedDefaults ==
    [llm_cost |-> [avg_tokens_per_call |-> 2000, days |-> 30,
                   include_output |-> TRUE, retry_pct |-> 5]]

\* tools/collect_llm_information.py lines 14-28: the `defaults` section of
\* the document, or the hardcoded defaults on any exception.
_load_defaults(f) ==
    LET loaded == _load_database(f)
    IN  IF loaded.exc # "" THEN HardcodedDefaults ELSE loaded.doc.defaults

\* A call of _load_defaults (made by collect_llm_information, line 51).
LoadDefaults(p, alone) ==
    /\ Enter(p, "_load_defaults", <<>>, alone)
    /\ result' = [result EXCEPT ![p] = _load_defaults(file)]
    /\ outcome' = [outcome EXCEPT ![p] = "returned"]
    /\ pc' = [pc EXCEPT ![p] = "done"]
    /\ UNCHANGED <<file, now, force, database, metadata, called, received, wrote, multi>>

\* ------------------------------------- collect_multi_agent_information

\* The largest total_agents of the roster collections explored.
MaxAgents == 3

\* tools/collect_multi_agent_information.py lines 22-28: the defaults used
\* when the document cannot be read.
MultiAgentHardcodedDefaults ==
    [multi_agent |-> [days |-> 30],
     llm_cost |-> [avg_tokens_per_call |-> 2000, days |-> 30]]

\* tools/collect_multi_agent_information.py lines 15-28 (_load_defaults of
\* that module): the `defaults` section, or the hardcoded defaults.
multi_agent_load_defaults(f) ==
    LET loaded == _load_database(f)
    IN  IF loaded.exc # "" THEN MultiAgentHardcodedDefaults ELSE loaded.doc.defaults

\* The values of the collected_agents_json argument: None, the text
\* json.dumps makes of a list, or a string that is not JSON.
NoJson == [kind |-> "none", parsed |-> <<>>]
GarbageJson == [kind |-> "garbage", parsed |-> <<>>]
json_dumps(value) == [kind |-> "text", parsed |-> value]

\* Lines 67-72: `if collected_agents_json:` and json.loads, with the list
\* left empty on None and on JSONDecodeError.
ParseCollected(collected_agents_json) ==
    IF collected_agents_json.kind = "text" THEN collected_agents_json.parsed ELSE <<>>

\* Python's `not value` for an optional integer argument.
NotGiven(value) == value = None \/ value = 0

\* Lines 92-127: the answer when all agents are collected.
Completed(defaults, collected_agents, days) ==
    [status |-> "success",
     validated_data |->
        [type |-> "multi_agent", agents |-> collected_agents,
         days |-> IF NotGiven(days) THEN defaults.multi_agent.days ELSE days],
     missing_fields |->
        {<<collected_agents[i].name, "tokens">> :
            i \in {j \in DOMAIN collected_agents : collected_agents[j].used_default_tokens}}
        \cup {<<collected_agents[i].name, "calls">> :
            i \in {j \in DOMAIN collected_agents : collected_agents[j].used_default_calls}}]

\* Lines 130-206 answering a prompt with the roster emptied.
collect_multi_agent_information_ForgetsOnPrompt(f, total_agents, collected_agents_json, current_agent_name, current_agent_purpose, current_agent_model, current_agent_tokens, current_agent_calls, days) ==
    LET defaults == multi_agent_load_defaults(f)
        collected_agents == ParseCollected(collected_agents_json)
        new_agent ==
            [name |-> current_agent_name, purpose |-> current_agent_purpose,
             model |-> current_agent_model,
             avg_tokens_per_call |-> IF NotGiven(current_agent_tokens)
                                     THEN defaults.llm_cost.avg_tokens_per_call
                                     ELSE current_agent_tokens,
             calls_per_day |-> IF NotGiven(current_agent_calls) THEN 50
                               ELSE current_agent_calls,
             used_default_tokens |-> NotGiven(current_agent_tokens),
             used_default_calls |-> NotGiven(current_agent_calls)]
        appended == Append(collected_agents, new_agent)
    IN  IF total_agents = None THEN [status |-> "need_info"]
        ELSE IF total_agents < 1 THEN [status |-> "error"]
        ELSE IF Len(collected_agents) >= total_agents
        THEN Completed(defaults, collected_agents, days)
        ELSE IF current_agent_name = "" \/ current_agent_purpose = "" \/ current_agent_model = ""
        THEN [status |-> "collecting", progress |-> 0,
              collected_agents_json |-> json_dumps(<<>>)]
        ELSE IF Len(appended) >= total_agents
        THEN Completed(defaults, ParseCollected(json_dumps(appended)), days)
        ELSE [status |-> "collecting", progress |-> Len(appended),
              collected_agents_json |-> json_dumps(appended)]

\* collect_multi_agent_information, lines 65-206.  A missing string
\* argument is "" (None and "" are both falsy); the recursive call of lines
\* 191-196 passes the dumped roster and takes the branch of line 92.
collect_multi_agent_information(f, total_agents, collected_agents_json, current_agent_name, current_agent_purpose, current_agent_model, current_agent_tokens, current_agent_calls, days) ==
    LET defaults == multi_agent_load_defaults(f)
        collected_agents == ParseCollected(collected_agents_json)
        new_agent ==
            [name |-> current_agent_name, purpose |-> current_agent_purpose,
             model |-> current_agent_model,
             avg_tokens_per_call |-> IF NotGiven(current_agent_tokens)
                                     THEN defaults.llm_cost.avg_tokens_per_call
                                     ELSE current_agent_tokens,
             calls_per_day |-> IF NotGiven(current_agent_calls) THEN 50
                               ELSE current_agent_calls,
             used_default_tokens |-> NotGiven(current_agent_tokens),
             used_default_calls |-> NotGiven(current_agent_calls)]
        appended == Append(collected_agents, new_agent)
    IN  IF total_agents = None THEN [status |-> "need_info"]
        ELSE IF total_agents < 1 THEN [status |-> "error"]
        ELSE IF Len(collected_agents) >= total_agents
        THEN Completed(defaults, collected_agents, days)
        ELSE IF current_agent_name = "" \/ current_agent_purpose = "" \/ current_agent_model = ""
        THEN [status |-> "collecting", progress |-> Len(collected_agents),
              collected_agents_json |-> json_dumps(collected_agents)]
        ELSE IF Len(appended) >= total_agents
        THEN Completed(defaults, ParseCollected(json_dumps(appended)), days)
        ELSE [status |-> "collecting", progress |-> Len(appended),
              collected_agents_json |-> json_dumps(appended)]

\* The first call of a roster collection: the caller has no roster yet.
CollectMultiAgent(p, total_agents, collected_agents_json, a, alone) ==
    LET r == collect_multi_agent_information(file, total_agents, collected_agents_json,
                                             a[1], a[2], a[3], a[4], a[5], a[6])
    IN  /\ Enter(p, "collect_multi_agent_information",
                 <<total_agents, collected_agents_json, a>>, alone)
        /\ result' = [result EXCEPT ![p] = r]
        /\ outcome' = [outcome EXCEPT ![p] = r.status]
        /\ pc' = [pc EXCEPT ![p] = "done"]
        /\ UNCHANGED <<file, now, force, database, metadata, called, received, wrote, multi>>

\* The caller's next call of the collection: it passes the
\* collected_agents_json of the answer it holds, with the same total_agents.
CollectNextAgent(p, a) ==
    LET json == result[p].collected_agents_json
        r == collect_multi_agent_information(file, key[p][1], json,
                                             a[1], a[2], a[3], a[4], a[5], a[6])
    IN  /\ op[p] = "collect_multi_agent_information" /\ pc[p] = "done"
        /\ outcome[p] = "collecting"
        /\ key' = [key EXCEPT ![p] = <<key[p][1], json, a>>]
        /\ before' = [before EXCEPT ![p] = file]
        /\ result' = [result EXCEPT ![p] = r]
        /\ outcome' = [outcome EXCEPT ![p] = r.status]
        /\ UNCHANGED <<file, now, op, pc, force, database, metadata, called, received, wrote, multi>>

\* ------------------------------------------------- check_pricing_in_database

\* tools/check_database.py lines 28-111: the lookup reads the sections
\* `llm_models` and `cloud_providers` only; every exception is answered with
\* status "error".
check_pricing_in_database(f, identifier, data_type) ==
    LET loaded == _load_database(f)
        section == IF data_type = "llm_model" THEN loaded.doc.llm_models
                   ELSE loaded.doc.cloud_providers
    IN  IF loaded.exc # "" THEN [status |-> "error", exists |-> FALSE]
        ELSE IF data_type \notin {"llm_model", "cloud_provider"}
        THEN [status |-> "error", exists |-> FALSE]
        ELSE IF identifier \in DOMAIN section
        THEN [status |-> "found", exists |-> TRUE]
        ELSE [status |-> "not_found", exists |-> FALSE]

\* A call of check_pricing_in_database.
CheckPricing(p, identifier, data_type, alone) ==
    LET r == check_pricing_in_database(file, identifier, data_type)
    IN  /\ Enter(p, "check_pricing_in_database", <<identifier, data_type>>, alone)
        /\ result' = [result EXCEPT ![p] = r]
        /\ outcome' = [outcome EXCEPT ![p] = r.status]
        /\ pc' = [pc EXCEPT ![p] = "done"]
        /\ UNCHANGED <<file, now, force, database, metadata, called, received, wrote, multi>>

\* --------------------------------------------------- calculate_cost_estimate

\* tools/calculate_cost.py lines 30-102.  validated_data is a dict with the
\* keys it carries (`days` in tenths, `retry_rate` in percent); a required
\* key that is absent is a KeyError; every exception is caught (line 97)
\* and answered with status "error".  For "multi_agent" the call goes on
\* with the loop of estimate_multi_agent_cost (PriceAgent).
calculate_cost_estimate(p, validated_data, alone) ==
    LET Get(k, default) == IF k \in DOMAIN validated_data THEN validated_data[k] ELSE default
        Lacks(keys) == keys \ DOMAIN validated_data # {}
        request_type == Get("type", "None")
        r == CASE request_type = "llm_cost" ->
                    IF Lacks({"model", "avg_tokens_per_call", "calls_per_day"})
                    THEN Failure("KeyError", "")
                    ELSE estimate_llm_cost(file, validated_data["model"],
                            validated_data["avg_tokens_per_call"],
                            validated_data["calls_per_day"], Get("days", 300),
                            Get("include_output", TRUE), Get("retry_rate", 0))
               [] request_type = "server_cost" ->
                    IF Lacks({"provider", "plan_or_type"})
                    THEN Failure("KeyError", "")
                    ELSE estimate_server_cost(file, validated_data["provider"],
                            validated_data["plan_or_type"], Get("runtime_hours", 720),
                            Get("storage_gb", 20), Get("traffic_gb", 50))
               [] request_type = "multi_agent" ->
                    IF Lacks({"agents"}) THEN Failure("KeyError", "")
                    ELSE CheckAgents(validated_data["agents"], Get("days", 300))
               [] OTHER -> Failure("Unknown request type", "")
        loops == request_type = "multi_agent" /\ r.exc = ""
    IN  /\ Enter(p, "calculate_cost_estimate", <<validated_data>>, alone)
        /\ IF loops
           THEN /\ pc' = [pc EXCEPT ![p] = "agent"]
                /\ multi' = [multi EXCEPT ![p] =
                        Locals(validated_data["agents"], Get("days", 300) \div 10)]
                /\ UNCHANGED <<outcome, result>>
           ELSE /\ Ends(p, TRUE, r)
                /\ UNCHANGED multi
        /\ UNCHANGED <<file, now, force, database, metadata, called, received, wrote>>

\* ---------------------------------------------------------------- returning

\* The call is over and its locals are gone.
Return(p) ==
    /\ pc[p] \in {"done", "failed"}
    /\ op' = [op EXCEPT ![p] = ""]
    /\ pc' = [pc EXCEPT ![p] = "idle"]
    /\ force' = [force EXCEPT ![p] = FALSE]
    /\ key' = [key EXCEPT ![p] = <<>>]
    /\ database' = [database EXCEPT ![p] = SeedDocument]
    /\ metadata' = [metadata EXCEPT ![p] = SeedDocument.metadata]
    /\ outcome' = [outcome EXCEPT ![p] = ""]
    /\ result' = [result EXCEPT ![p] = Failure("", "")]
    /\ before' = [before EXCEPT ![p] = Whole(SeedDocument)]
    /\ called' = [called EXCEPT ![p] = FALSE]
    /\ received' = [received EXCEPT ![p] = NoPayload]
    /\ wrote' = [wrote EXCEPT ![p] = FALSE]
    /\ multi' = [multi EXCEPT ![p] = Locals(<<>>, 0)]
    /\ UNCHANGED <<file, now>>

\* ------------------------------------------------------- the specifications

ModelNames == {"gpt-4o", "gemini", "unknown"}

\* Values of last_successful_update handed to should_refresh.
LastUpdates ==
    {Absent, Null, EmptyStr, Garbage, Number(0), Number(1)}
        \cup {AwareIso(t) : t \in {0, 11, 12, 13}}
        \cup {NaiveIso(t) : t \in {0, 12}}

\* The numeric arguments of estimate_llm_cost: avg_tokens_per_call,
\* calls_per_day, days (in tenths), include_output, retry_rate (in percent).
LlmInputs ==
    { <<200, 5, 300, TRUE, 0>>,  <<200, 5, 300, FALSE, 0>>,
      <<200, 5, 300, TRUE, 10>>, <<200, 5, 300, TRUE, -50>>,
      <<0, 5, 300, TRUE, 0>>,    <<200, 0, 300, TRUE, 0>>,
      <<200, 5, 0, TRUE, 0>>,    <<200, 5, -10, TRUE, -50>>,
      <<-1, 0, 0, TRUE, 0>>,     <<200, -5, -10, TRUE, 0>>,
      <<200, 5, 15, TRUE, 0>>,   <<200, 5, 5, TRUE, 0>> }

\* The numeric arguments of estimate_server_cost: runtime_hours, storage_gb,
\* traffic_gb.
ServerInputs == { <<720, 20, 50>>, <<360, -5, 0>>, <<0, 20, 50>>, <<720, 20, -5>> }

\* The `agents` arguments of estimate_multi_agent_cost.
AgentLists ==
    { <<>>,
      <<AgentEntry("a", "gpt-4o", 200, 5, {})>>,
      <<AgentEntry("a", "gpt-4o", 200, 5, {}), AgentEntry("b", "gemini", 100, 5, {})>>,
      <<AgentEntry("a", "gpt-4o", 200, 5, {}), AgentEntry("b", "gpt-4o", 100, 5, {})>>,
      <<AgentEntry("a", "gpt-4o", 200, 5, {}), AgentEntry("b", "unknown", 100, 5, {})>>,
      <<AgentEntry("a", "gpt-4o", 200, 5, {}), AgentEntry("b", "gpt-4o", 100, 5, {"calls_per_day"})>>,
      <<AgentEntry("a", "gpt-4o", 200, 5, {}), AgentEntry("b", "gpt-4o", 0, 5, {})>>,
      <<AgentEntry("a", "unknown", 200, 5, {}), AgentEntry("b", "gpt-4o", 100, 5, {"name", "model"})>>,
      <<AgentEntry("a", "gpt-4o", 200, 5, {"model"})>> }

\* The validated_data arguments of calculate_cost_estimate.
CostInputs ==
    { [type |-> "llm_cost", model |-> "gpt-4o", avg_tokens_per_call |-> 200, calls_per_day |-> 5],
      [type |-> "llm_cost", model |-> "gpt-4o", avg_tokens_per_call |-> 200, calls_per_day |-> 5,
       days |-> 15, include_output |-> FALSE, retry_rate |-> 10],
      [type |-> "llm_cost", model |-> "unknown", avg_tokens_per_call |-> 200, calls_per_day |-> 5],
      [type |-> "llm_cost", model |-> "gpt-4o", avg_tokens_per_call |-> 0, calls_per_day |-> 5],
      [type |-> "llm_cost", model |-> "gpt-4o", avg_tokens_per_call |-> 200, calls_per_day |-> 5,
       days |-> 5],
      [type |-> "llm_cost", model |-> "gpt-4o", calls_per_day |-> 5],
      [type |-> "server_cost", provider |-> "aws", plan_or_type |-> "t2.micro"],
      [type |-> "server_cost", provider |-> "aws", plan_or_type |-> "m5.large"],
      [type |-> "server_cost", provider |-> "aws", plan_or_type |-> "t2.micro", runtime_hours |-> 0],
      [type |-> "server_cost", provider |-> "aws"],
      [type |-> "multi_agent",
       agents |-> <<AgentEntry("a", "gpt-4o", 200, 5, {}), AgentEntry("b", "gpt-4o", 100, 5, {})>>],
      [type |-> "multi_agent",
       agents |-> <<AgentEntry("a", "gpt-4o", 200, 5, {}), AgentEntry("b", "unknown", 100, 5, {})>>],
      [type |-> "multi_agent",
       agents |-> <<AgentEntry("a", "gpt-4o", 200, 5, {}), AgentEntry("b", "gpt-4o", 100, 5, {"name"})>>],
      [type |-> "multi_agent",
       agents |-> <<AgentEntry("a", "gpt-4o", 200, 5, {}), AgentEntry("a", "gpt-4o", 100, 5, {})>>],
      [type |-> "multi_agent", agents |-> <<>>],
      [type |-> "multi_agent", days |-> 300],
      [type |-> "other", model |-> "gpt-4o"],
      [model |-> "gpt-4o", avg_tokens_per_call |-> 200, calls_per_day |-> 5] }

\* The steps of a call in progress.
Proceed(p) ==
    \/ \E payload \in Payloads : ProviderReturns(p, payload)
    \/ ProviderFails(p)
    \/ OpenForWrite(p)
    \/ DumpCompletes(p)
    \/ DumpFails(p)
    \/ PriceAgent(p)
    \/ Return(p)

\* The calls a caller can make; `alone` says whether the caller waits until
\* no other call is in progress.
Call(p, alone) ==
    \/ \E f \in BOOLEAN : update_pricing_database(p, f, alone)
    \/ \E last \in LastUpdates :
            CallShouldRefresh(p, [last_successful_update |-> last, currency |-> "USD"], alone)
    \/ \E price \in {None, 2} : save_to_database(p, "claude", "llm_model", price, 4, None, alone)
    \/ \E price \in {None, 2} : save_to_database(p, "gcp", "cloud_provider", None, None, price, alone)
    \/ save_to_database(p, "gcp", "other", 2, 4, 2, alone)
    \/ \E model \in ModelNames : EstimateLlm(p, model, 200, 5, 300, TRUE, 0, alone)
    \/ \E provider \in {"aws", "gcp"} : EstimateServer(p, provider, "t2.micro", 720, 20, 50, alone)
    \/ \E model \in {"gpt-4o", "unknown"} :
            EstimateMultiAgent(p, <<AgentEntry("a", "gpt-4o", 200, 5, {}),
                                    AgentEntry("b", model, 100, 5, {})>>, 300, alone)

\* The single-threaded, synchronous use of the program: a call begins when
\* no other is in progress.
Next ==
    \/ Tick
    \/ \E p \in Tasks : Call(p, TRUE)
    \/ \E p \in Tasks : Proceed(p)

Spec == Init /\ [][Next]_vars

\* The calls of the cost formulas over their whole input sets, and the
\* writers that give them every kind of document to read.
CallFormulas(p) ==
    \/ update_pricing_database(p, TRUE, TRUE)
    \/ save_to_database(p, "claude", "llm_model", 2, 4, None, TRUE)
    \/ save_to_database(p, "gcp", "cloud_provider", None, None, 2, TRUE)
    \/ LoadDefaults(p, TRUE)
    \/ \E identifier \in ModelNames \cup {"claude"} :
            CheckPricing(p, identifier, "llm_model", TRUE)
    \/ \E identifier \in {"aws", "gcp"}, data_type \in {"cloud_provider", "other"} :
            CheckPricing(p, identifier, data_type, TRUE)
    \/ \E model \in ModelNames \cup {"claude"}, a \in LlmInputs :
            EstimateLlm(p, model, a[1], a[2], a[3], a[4], a[5], TRUE)
    \/ EstimateLlm(p, "gemini", 2000, 50, 300, TRUE, 0, TRUE)
    \/ \E provider \in {"aws", "gcp"}, plan \in {"t2.micro", "m5.large"}, a \in ServerInputs :
            EstimateServer(p, provider, plan, a[1], a[2], a[3], TRUE)
    \/ \E agents \in AgentLists, days10 \in {0, 5, 15, 300} :
            EstimateMultiAgent(p, agents, days10, TRUE)
    \/ \E validated_data \in CostInputs : calculate_cost_estimate(p, validated_data, TRUE)

\* The cost formulas in single-threaded use, the clock left aside.
NextFormulas ==
    \/ \E p \in Tasks : CallFormulas(p)
    \/ \E p \in Tasks : ProviderReturns(p, KeyedPayload)
    \/ \E p \in Tasks : Proceed(p)

Formulas == Init /\ [][NextFormulas]_vars

\* The current_agent_* and days arguments of collect_multi_agent_information:
\* name, purpose, model, tokens, calls, days.
AgentAnswers ==
    { <<"a", "x", "gpt-4o", None, None, None>>,
      <<"b", "y", "gemini", 200, 20, 7>>,
      <<"", "x", "gpt-4o", 200, 20, 7>>,
      <<"a", "", "gpt-4o", 200, 20, 7>>,
      <<"a", "x", "", 200, 20, 7>>,
      <<"", "", "", None, None, None>> }

\* The roster collected call after call, while the document is written by
\* save_to_database (whose failed write leaves it unreadable).
NextCollection ==
    \/ \E p \in Tasks, total_agents \in {None} \cup 0..MaxAgents,
          json \in {NoJson, GarbageJson}, a \in AgentAnswers :
            CollectMultiAgent(p, total_agents, json, a, TRUE)
    \/ \E p \in Tasks, a \in AgentAnswers : CollectNextAgent(p, a)
    \/ \E p \in Tasks : save_to_database(p, "claude", "llm_model", 2, 4, None, TRUE)
    \/ \E p \in Tasks : OpenForWrite(p)
    \/ \E p \in Tasks : DumpCompletes(p)
    \/ \E p \in Tasks : DumpFails(p)
    \/ \E p \in Tasks : Return(p)

Collection == Init /\ [][NextCollection]_vars

\* The steps of a call in progress whose provider and whose write succeed.
ProceedConcurrent(p) ==
    \/ \E payload \in {GoodPayload, KeyedPayload} : ProviderReturns(p, payload)
    \/ OpenForWrite(p)
    \/ DumpCompletes(p)
    \/ PriceAgent(p)
    \/ Return(p)

\* The calls made without waiting for the calls in progress.
CallConcurrent(p) ==
    \/ \E f \in BOOLEAN : update_pricing_database(p, f, FALSE)
    \/ save_to_database(p, "claude", "llm_model", 2, 4, None, FALSE)
    \/ EstimateLlm(p, "gpt-4o", 200, 5, 300, TRUE, 0, FALSE)
    \/ EstimateServer(p, "aws", "t2.micro", 720, 20, 50, FALSE)
    \/ \E model \in {"gpt-4o", "gemini"} :
            EstimateMultiAgent(p, <<AgentEntry("a", "gpt-4o", 200, 5, {}),
                                    AgentEntry("b", model, 100, 5, {})>>, 300, FALSE)

\* The tools called from several tasks at once: nothing in the source holds
\* a lock, so the steps of two calls interleave freely.
NextConcurrent ==
    \/ \E p \in Tasks : CallConcurrent(p)
    \/ \E p \in Tasks : ProceedConcurrent(p)

Concurrent == Init /\ [][NextConcurrent]_vars

\* ------------------------------------------------------------------ claims

Update(p) == op[p] = "update_pricing_database"
Over(p)   == pc[p] \in {"done", "failed"}

\* Task p's call begins in this step.
Begins(p, name) == pc[p] = "idle" /\ op'[p] = name

\* C1: after any execution of update_pricing_database, succeeding or failing
\* at any step, the persisted document is either what it was before the call
\* or that document with `pricing` replaced by a provider payload and
\* last_successful_update stamped; never a partially written document.
C1_AllOrNothing ==
    \A p \in Tasks : (Update(p) /\ Over(p)) =>
        \/ file = before[p]
        \/ /\ file.text = "whole" /\ before[p].text = "whole"
           /\ \E payload \in Payloads, t \in 0..now :
                file.doc = Refreshed(before[p].doc, before[p].doc.metadata, payload, t)

\* C2: update_pricing_database(force=false) on a document whose metadata
\* should_refresh finds fresh returns at once: the provider is not invoked,
\* the file is not opened for writing, the document on disk is unchanged and
\* the loaded document is returned.
C2_FreshIsNoOp ==
    [][\A p \in Tasks :
        ( /\ Begins(p, "update_pricing_database") /\ ~force'[p]
          /\ file.text = "whole"
          /\ should_refresh(file.doc.metadata, now) = [exc |-> "", ret |-> FALSE] )
        => ( /\ pc'[p] = "done" /\ outcome'[p] = "returned"
             /\ ~called'[p] /\ ~wrote'[p]
             /\ file' = file /\ database'[p] = file.doc )]_vars

\* C2 witness: a non-forced update returned early on a stamped document.
C2_Witness ==
    \E p \in Tasks :
        /\ Update(p) /\ pc[p] = "done" /\ ~force[p] /\ ~called[p]
        /\ file.text = "whole"
        /\ file.doc.metadata.last_successful_update.kind = "aware"

\* C3: when an entry of the provider payload lacks a required field, the
\* refresh fails and the persisted document is the one from before the call
\* (stated for the executions whose write itself did not fail, see C1).
C3_IncompleteEntryAborts ==
    \A p \in Tasks : (Update(p) /\ Over(p) /\ Incomplete(received[p]) /\ outcome[p] # "OSError") =>
        (pc[p] = "failed" /\ file = before[p])

\* C4: when the provider call fails, the exception leaves
\* update_pricing_database, the file is never opened for writing, the
\* persisted document is the one from before the call, and every cost
\* formula returns on it what it returned before.
C4_ProviderFailureKeepsDocument ==
    \A p \in Tasks : (Update(p) /\ called[p] /\ received[p] = NoPayload /\ pc[p] # "calling") =>
        /\ pc[p] = "failed" /\ outcome[p] = "RefreshError"
        /\ ~wrote[p]
        /\ file = before[p]
        /\ \A model \in ModelNames :
             estimate_llm_cost(file, model, 200, 5, 300, TRUE, 0)
                = estimate_llm_cost(before[p], model, 200, 5, 300, TRUE, 0)
        /\ estimate_server_cost(file, "aws", "t2.micro", 720, 20, 50)
                = estimate_server_cost(before[p], "aws", "t2.micro", 720, 20, 50)

\* C4 witness: a refresh whose provider call failed, on a readable document.
C4_Witness ==
    \E p \in Tasks : Update(p) /\ outcome[p] = "RefreshError" /\ before[p].text = "whole"

\* C5: after a successful refresh every complete model entry of the payload
\* is resolved by estimate_llm_cost at its refreshed input price, and every
\* server entry by estimate_server_cost at its refreshed base price.
C5_RefreshedPricesResolve ==
    \A p \in Tasks :
        (Update(p) /\ pc[p] = "done" /\ wrote[p] /\ ~Incomplete(received[p])) =>
            /\ \A i \in DOMAIN received[p].models :
                LET e == received[p].models[i]
                    r == estimate_llm_cost(file, e["name"], 200, 5, 300, TRUE, 0)
                IN  r.exc = "" /\ r.price_per_1m = e["input_per_1m"]
            /\ \A i \in DOMAIN received[p].servers :
                LET e == received[p].servers[i]
                    r == estimate_server_cost(file, e["provider"], e["plan"], 720, 20, 50)
                IN  r.exc = "" /\ r.price_per_1m = e["base_monthly"]

\* What C6 says should_refresh returns for `last` at clock value t.
C6_Expected(last, t) ==
    IF last.kind \in {"absent", "null", "empty", "garbage", "number"} THEN "True"
    ELSE IF t - last.t >= PRICING_REFRESH_TTL_HOURS THEN "True" ELSE "False"

\* C6: should_refresh returns true when last_successful_update is absent,
\* null, empty or not a timestamp, and otherwise true exactly when the
\* clock is 24 hours or more past it.
C6_ShouldRefreshValue ==
    [][\A p \in Tasks : Begins(p, "should_refresh") =>
        outcome'[p] = C6_Expected(metadata'[p].last_successful_update, now)]_vars

\* C7: a non-forced update on a document without last_successful_update
\* invokes the provider; the stamp a refresh takes is the clock value at
\* that moment and is what its write puts on disk; on a persisted stamp t
\* should_refresh is false before t + 24 hours and true from then on; and a
\* non-forced update on a document stamped t invokes the provider exactly
\* when the clock has reached t + 24 hours.
C7_FreshnessCycle ==
    [][/\ (file.text = "whole" /\ file.doc.metadata.last_successful_update.kind = "aware")
            => should_refresh(file.doc.metadata, now)
                = [exc |-> "",
                   ret |-> now >= file.doc.metadata.last_successful_update.t
                                    + PRICING_REFRESH_TTL_HOURS]
       /\ \A p \in Tasks :
        /\ ( /\ Begins(p, "update_pricing_database") /\ ~force'[p] /\ file.text = "whole" )
            => LET last == file.doc.metadata.last_successful_update
               IN  /\ last.kind = "absent" => (called'[p] /\ pc'[p] = "calling")
                   /\ last.kind = "aware" =>
                        /\ last.t <= now
                        /\ called'[p] <=> (now >= last.t + PRICING_REFRESH_TTL_HOURS)
                        /\ ~called'[p] => (pc'[p] = "done" /\ file' = file)
        /\ (Update(p) /\ pc[p] = "calling" /\ pc'[p] = "write")
            => database'[p].metadata.last_successful_update = AwareIso(now)
        /\ (Update(p) /\ pc[p] = "dumping" /\ pc'[p] = "done")
            => file' = Whole(database[p])]_vars

\* C7 witness: a non-forced update invoked the provider again on a document
\* whose stamp had become exactly 24 hours old.
C7_Witness ==
    \E p \in Tasks :
        /\ Update(p) /\ ~force[p] /\ called[p] /\ pc[p] = "calling"
        /\ metadata[p].last_successful_update.kind = "aware"
        /\ now = metadata[p].last_successful_update.t + PRICING_REFRESH_TTL_HOURS

\* The task that takes this step, if the step is a task's.
Steps(p) == pc'[p] # pc[p]

\* C8 as stated: only update_pricing_database changes the file.
C8_RefreshIsSoleWriter ==
    [][file' # file => \E p \in Tasks : Steps(p) /\ Update(p)]_vars

\* C8 amended: the file changes only in the write steps of
\* update_pricing_database and of save_to_database; the cost formulas and
\* should_refresh never change it, whether they return or raise.
C8_OnlyTheTwoWritersWrite ==
    [][file' # file =>
        \E p \in Tasks :
            /\ Steps(p)
            /\ op[p] \in {"update_pricing_database", "save_to_database"}
            /\ pc[p] \in {"write", "dumping"}]_vars

\* C8 witness: save_to_database has written an entry, and a cost formula has
\* since run on the document.
C8_Witness ==
    /\ file.text = "whole" /\ "claude" \in DOMAIN file.doc.llm_models
    /\ \E p \in Tasks : op[p] = "estimate_llm_cost" /\ Over(p)

\* Task p's cost formula loads the document in this step: the one load of
\* estimate_llm_cost / estimate_server_cost, or a turn of the loop of
\* estimate_multi_agent_cost.
Loads(p) ==
    \/ Begins(p, "estimate_llm_cost")
    \/ Begins(p, "estimate_server_cost")
    \/ /\ op[p] = "estimate_multi_agent_cost" /\ pc[p] = "agent"
       /\ <<pc'[p], multi'[p]>> # <<pc[p], multi[p]>>

\* C9: a cost formula that loads the document while a refresh is writing it
\* loads a complete document (the one before the refresh or the one after
\* it) and so never fails on a document that is being written.
C9_ReaderSeesWholeDocument ==
    [][\A p, q \in Tasks :
        (Update(q) /\ pc[q] = "dumping" /\ Loads(p)) =>
            (file.text = "whole" /\ outcome'[p] # "JSONDecodeError")]_vars

\* C10: at most one execution of update_pricing_database is between its load
\* of the document and the end of its write.
C10_OneRefreshInFlight ==
    Cardinality({p \in Tasks : Update(p) /\ pc[p] \in {"calling", "write", "dumping"}}) <= 1

\* `model` is a key of pricing.models of document doc.
HasModel(doc, model) ==
    doc.pricing.models.kind = "dict" /\ model \in DOMAIN doc.pricing.models.dict

\* `provider` is a key of pricing.servers of doc and `plan` a key under it.
HasPlan(doc, provider, plan) ==
    /\ doc.pricing.servers.kind = "dict"
    /\ provider \in DOMAIN doc.pricing.servers.dict
    /\ plan \in DOMAIN doc.pricing.servers.dict[provider]

\* C11: on every readable document and for every input, estimate_llm_cost
\* with a model that is not a key of pricing.models, and
\* estimate_server_cost with a provider or plan that is not in
\* pricing.servers, raise the not-found error (KeyError) and return no cost.
C11_UnknownIsNotFound ==
    [][\A p \in Tasks :
        /\ ( /\ Begins(p, "estimate_llm_cost") /\ file.text = "whole"
             /\ ~HasModel(file.doc, key'[p][1]) )
            => (pc'[p] = "failed" /\ outcome'[p] = "KeyError")
        /\ ( /\ Begins(p, "estimate_server_cost") /\ file.text = "whole"
             /\ ~HasPlan(file.doc, key'[p][1], key'[p][2]) )
            => (pc'[p] = "failed" /\ outcome'[p] = "KeyError")]_vars

Multi(p) == op[p] = "estimate_multi_agent_cost"

\* The exception the loop body raises for `agent`: the missing-field
\* ValueError, or that of the estimate_llm_cost call made for it.
AgentError(f, agent, days) ==
    IF AgentFields \ DOMAIN agent # {} THEN "ValueError"
    ELSE estimate_llm_cost(f, agent["model"], agent["avg_tokens_per_call"],
                           agent["calls_per_day"], days * 10, TRUE, 0).exc

\* The position of the first agent whose turn of the loop raises; 0 if none.
FirstFailing(f, agents, days) ==
    LET bad == {i \in DOMAIN agents : AgentError(f, agents[i], days) # ""}
    IN  IF bad = {} THEN 0 ELSE CHOOSE i \in bad : \A j \in bad : i <= j

\* C12: when the estimate_llm_cost of some agent fails, at whatever
\* position, estimate_multi_agent_cost raises the error of the first failing
\* agent and returns no total, no breakdown and no metadata snapshot.
C12_FailsAtomically ==
    \A p \in Tasks :
        ( /\ Multi(p) /\ Over(p)
          /\ key[p][1] # <<>> /\ key[p][2] > 0
          /\ FirstFailing(before[p], key[p][1], key[p][2] \div 10) # 0 ) =>
            LET i == FirstFailing(before[p], key[p][1], key[p][2] \div 10)
            IN  /\ pc[p] = "failed"
                /\ outcome[p] = AgentError(before[p], key[p][1][i], key[p][2] \div 10)
                /\ result[p].exc = outcome[p]
                /\ DOMAIN result[p] \cap {"total_monthly_cost", "agents", "metadata"} = {}

\* C12 witness: the call failed on its second agent, an unknown model, after
\* the first agent had been priced.
C12_Witness ==
    \E p \in Tasks :
        /\ Multi(p) /\ pc[p] = "failed" /\ outcome[p] = "KeyError"
        /\ Len(multi[p].breakdown) = 1 /\ multi[p].total > 0

\* The fields the first incomplete entry of `agents` lacks; {} if all are
\* complete.
FirstMissing(agents) ==
    LET bad == {i \in DOMAIN agents : AgentFields \ DOMAIN agents[i] # {}}
    IN  IF bad = {} THEN {}
        ELSE AgentFields \ DOMAIN agents[CHOOSE i \in bad : \A j \in bad : i <= j]

\* C13: estimate_multi_agent_cost raises a validation error when `agents`
\* is empty, and (for `days` of a day or more) a validation error naming exactly the
\* missing fields when an entry of `agents` lacks a required field; no
\* result is returned.
C13_AgentsAreValidated ==
    \A p \in Tasks : (Multi(p) /\ Over(p)) =>
        /\ key[p][1] = <<>> =>
            (pc[p] = "failed" /\ outcome[p] = "ValueError" /\ result[p].field = "agents")
        /\ (key[p][2] >= 10 /\ FirstMissing(key[p][1]) # {}) =>
            /\ pc[p] = "failed" /\ outcome[p] = "ValueError"
            /\ "missing" \in DOMAIN result[p]
            /\ result[p].missing = FirstMissing(key[p][1])

\* The monthly_cost of estimate_llm_cost called on its own for `agent`.
AgentCost(f, agent, days10) ==
    estimate_llm_cost(f, agent["model"], agent["avg_tokens_per_call"],
                      agent["calls_per_day"], days10, TRUE, 0).monthly_cost

RECURSIVE SumCosts(_, _, _)
SumCosts(f, agents, days10) ==
    IF agents = <<>> THEN 0
    ELSE AgentCost(f, Head(agents), days10) + SumCosts(f, Tail(agents), days10)

\* C14: with the document unchanged during the call, the total_monthly_cost
\* estimate_multi_agent_cost returns is the sum of the monthly_cost of
\* estimate_llm_cost called on its own for each agent with the same `days`,
\* and daily_cost is that total divided by the (whole) number of days.
C14_TotalIsSumOfAgents ==
    \A p \in Tasks : (Multi(p) /\ pc[p] = "done") =>
        /\ result[p].total_monthly_cost = SumCosts(before[p], key[p][1], key[p][2])
        /\ result[p].days = key[p][2] \div 10

\* C14 witness: a call for two agents has returned, for 1.5 days, a total
\* above the cost of its first agent.
C14_Witness ==
    \E p \in Tasks :
        /\ Multi(p) /\ pc[p] = "done" /\ Len(key[p][1]) = 2 /\ key[p][2] = 15
        /\ result[p].total_monthly_cost > result[p].agents[1].cost
        /\ result[p].agents[1].cost > 0

\* C15: the breakdown estimate_multi_agent_cost returns has one entry per
\* agent, in input order, with the agent's name and the monthly_cost of its
\* estimate_llm_cost called on its own.
C15_BreakdownFollowsInput ==
    \A p \in Tasks : (Multi(p) /\ pc[p] = "done") =>
        /\ Len(result[p].agents) = Len(key[p][1])
        /\ \A i \in DOMAIN key[p][1] :
            /\ result[p].agents[i].name = key[p][1][i]["name"]
            /\ result[p].agents[i].cost = AgentCost(before[p], key[p][1][i], key[p][2])

\* C15 witness: a returned breakdown of two entries with different costs.
C15_Witness ==
    \E p \in Tasks :
        /\ Multi(p) /\ pc[p] = "done" /\ Len(result[p].agents) = 2
        /\ result[p].agents[1].cost # result[p].agents[2].cost

\* The agent the loop of p's estimate_multi_agent_cost is about to price.
CurrentAgent(p) == multi[p].agents[Len(multi[p].breakdown) + 1]

\* The provenance of `model` in the document on disk.
Provenance(f, model) ==
    [retrieved_at |-> f.doc.pricing.models.dict[model].retrieved_at,
     source |-> f.doc.pricing.models.dict[model].source]

\* C16: metadata_snapshot has one key per distinct model of the agents
\* priced so far; a model's provenance is entered when the first agent
\* using it is priced, from the record looked up for that agent, and is not
\* overwritten by later agents sharing the model, also when the document's
\* record for the model has changed in between; the snapshot returned is
\* the one so built.
C16_SnapshotKeepsFirstProvenance ==
    [][\A p \in Tasks :
        (Multi(p) /\ pc[p] = "agent" /\ multi'[p] # multi[p]) =>
            LET model == CurrentAgent(p)["model"]
                old == multi[p].metadata_snapshot
                new == multi'[p].metadata_snapshot
                n == Len(multi'[p].breakdown)
            IN  /\ DOMAIN new = {multi[p].agents[i]["model"] : i \in 1..n}
                /\ \A k \in DOMAIN old : new[k] = old[k]
                /\ model \notin DOMAIN old => new[model] = Provenance(file, model)
                /\ pc'[p] = "done" => result'[p].metadata = new]_vars

\* C16 witness: a call for two agents sharing a model has returned; the
\* document's record for the model changed between the two lookups (the
\* second agent was priced at the new price), and the snapshot holds the
\* provenance of the record the first agent was priced from.
C16_Witness ==
    \E p \in Tasks :
        /\ Multi(p) /\ pc[p] = "done" /\ file.text = "whole"
        /\ key[p][1][1]["model"] = "gpt-4o" /\ key[p][1][2]["model"] = "gpt-4o"
        /\ HasModel(file.doc, "gpt-4o")
        /\ result[p].agents[2].cost = AgentCost(file, key[p][1][2], key[p][2])
        /\ result[p].agents[1].cost = AgentCost(Whole(SeedDocument), key[p][1][1], key[p][2])
        /\ result[p].metadata["gpt-4o"].source = "seed"
        /\ Provenance(file, "gpt-4o").source = "google_search"

\* The outcome of the formula calculate_cost_estimate calls for
\* validated_data on document f, computed on its own: the exception ("" if
\* none) and the monthly cost.
Formula(f, validated_data) ==
    LET Get(k, default) == IF k \in DOMAIN validated_data THEN validated_data[k] ELSE default
        type == Get("type", "None")
        agents == validated_data["agents"]
        days10 == Get("days", 300)
    IN  CASE type = "llm_cost" /\ {"model", "avg_tokens_per_call", "calls_per_day"} \subseteq DOMAIN validated_data ->
                LET r == estimate_llm_cost(f, validated_data["model"],
                            validated_data["avg_tokens_per_call"], validated_data["calls_per_day"],
                            days10, Get("include_output", TRUE), Get("retry_rate", 0))
                IN  [fails |-> r.exc # "", monthly_cost |-> r.monthly_cost]
          [] type = "server_cost" /\ {"provider", "plan_or_type"} \subseteq DOMAIN validated_data ->
                LET r == estimate_server_cost(f, validated_data["provider"],
                            validated_data["plan_or_type"], Get("runtime_hours", 720),
                            Get("storage_gb", 20), Get("traffic_gb", 50))
                IN  [fails |-> r.exc # "", monthly_cost |-> r.monthly_cost]
          [] type = "multi_agent" /\ "agents" \in DOMAIN validated_data ->
                IF agents = <<>> \/ days10 <= 0 \/ FirstFailing(f, agents, days10 \div 10) # 0
                THEN [fails |-> TRUE, monthly_cost |-> 0]
                ELSE [fails |-> FALSE, monthly_cost |-> SumCosts(f, agents, days10)]
          [] OTHER -> [fails |-> TRUE, monthly_cost |-> 0]

\* C17: calculate_cost_estimate always returns: with status "error" and no
\* monthly_cost when the formula fails (unknown model, provider or plan,
\* invalid parameter, empty or malformed agent list, unreadable document),
\* a required key is absent or the type tag is unknown; with status
\* "success" and the formula's monthly cost otherwise.
C17_EntryPointAnswers ==
    \A p \in Tasks : (Wrapped(p) /\ pc[p] # "agent") =>
        LET expected == Formula(before[p], key[p][1])
        IN  /\ pc[p] = "done"
            /\ result[p].status = (IF expected.fails THEN "error" ELSE "success")
            /\ outcome[p] = (IF expected.fails THEN "status:error" ELSE "status:success")
            /\ expected.fails => "monthly_cost" \notin DOMAIN result[p]
            /\ ~expected.fails => result[p].monthly_cost = expected.monthly_cost

\* C17 witness: a multi-agent request answered with status "success" and a
\* positive cost.
C17_Witness ==
    \E p \in Tasks :
        /\ Wrapped(p) /\ pc[p] = "done"
        /\ "agents" \in DOMAIN key[p][1] /\ Len(key[p][1]["agents"]) = 2
        /\ result[p].status = "success" /\ result[p].monthly_cost > 0

\* C17 second witness: a request for an unknown model answered with status
\* "error".
C17_WitnessError ==
    \E p \in Tasks :
        /\ Wrapped(p) /\ pc[p] = "done" /\ key[p][1] \in CostInputs
        /\ "model" \in DOMAIN key[p][1] /\ key[p][1]["model"] = "unknown"
        /\ result[p].status = "error"

\* `model` is stored in document doc, in either layout.
StoresModel(doc, model) == HasModel(doc, model) \/ model \in DOMAIN doc.llm_models

\* `provider` is stored in document doc, in either layout.
StoresProvider(doc, provider) ==
    \/ doc.pricing.servers.kind = "dict" /\ provider \in DOMAIN doc.pricing.servers.dict
    \/ provider \in DOMAIN doc.cloud_providers

\* C18: a model stored under pricing.models or under llm_models is found by
\* check_pricing_in_database and resolved by estimate_llm_cost, and a
\* provider stored under pricing.servers or under cloud_providers is found
\* by check_pricing_in_database.
C18_BothLayoutsSupported ==
    [][\A p \in Tasks :
        /\ ( /\ Begins(p, "check_pricing_in_database") /\ file.text = "whole"
             /\ \/ key'[p][2] = "llm_model" /\ StoresModel(file.doc, key'[p][1])
                \/ key'[p][2] = "cloud_provider" /\ StoresProvider(file.doc, key'[p][1]) )
            => outcome'[p] = "found"
        /\ ( /\ Begins(p, "estimate_llm_cost") /\ file.text = "whole"
             /\ StoresModel(file.doc, key'[p][1]) )
            => outcome'[p] # "KeyError"]_vars

\* The names of the price fields of the pricing records, in both layouts.
PriceFields ==
    {"input_per_1m", "output_per_1m", "base_monthly", "storage_gb_price",
     "traffic_gb_price", "price_input", "price_output", "price_base"}

\* C19: on an unreadable document estimate_llm_cost, estimate_server_cost
\* and estimate_multi_agent_cost raise and return no cost (through
\* calculate_cost_estimate: status "error"); _load_defaults falls back to
\* its hardcoded defaults then and only then, and these hold no price.
C19_UnreadableDocumentIsFatal ==
    \A p \in Tasks : Over(p) =>
        /\ ( /\ before[p].text # "whole"
             /\ op[p] \in {"estimate_llm_cost", "estimate_server_cost",
                           "estimate_multi_agent_cost"} )
            => /\ pc[p] = "failed" /\ result[p].exc # ""
               /\ outcome[p] \in {"JSONDecodeError", "ValueError"}
               /\ outcome[p] = "ValueError" => Multi(p)
        /\ (before[p].text # "whole" /\ Wrapped(p))
            => (result[p].status = "error" /\ "monthly_cost" \notin DOMAIN result[p])
        /\ op[p] = "_load_defaults"
            => /\ result[p] = (IF before[p].text = "whole" THEN before[p].doc.defaults
                               ELSE HardcodedDefaults)
               /\ before[p].text # "whole" =>
                    \A section \in DOMAIN result[p] :
                        DOMAIN result[p][section] \cap PriceFields = {}

\* C19 witness: estimate_llm_cost for a stored model has raised on a
\* document that a failed write left cut off.
C19_Witness ==
    \E p \in Tasks :
        /\ op[p] = "estimate_llm_cost" /\ key[p][1] = "gpt-4o" /\ key[p][2] = 200
        /\ before[p].text = "partial" /\ outcome[p] = "JSONDecodeError"

\* The first of the checked arguments of estimate_llm_cost that is not
\* positive, in the order of the code's checks; "" when all are positive.
Offending(k) ==
    IF k[2] <= 0 THEN "avg_tokens_per_call"
    ELSE IF k[3] <= 0 THEN "calls_per_day"
    ELSE IF k[4] <= 0 THEN "days"
    ELSE ""

\* C20: for a model that is a key of pricing.models of a readable document,
\* estimate_llm_cost raises ValueError naming the offending field when
\* avg_tokens_per_call, calls_per_day or days is not positive, and returns
\* no cost; with these positive (days at least 1) a negative retry_rate is
\* no error and gives the result of retry_rate 0.
C20_NonPositiveIsRejected ==
    [][\A p \in Tasks :
        ( /\ Begins(p, "estimate_llm_cost") /\ file.text = "whole"
          /\ HasModel(file.doc, key'[p][1]) )
        => LET k == key'[p]
           IN  /\ Offending(k) # ""
                    => /\ pc'[p] = "failed" /\ outcome'[p] = "ValueError"
                       /\ result'[p].exc = "ValueError"
                       /\ result'[p].field = Offending(k)
               /\ (Offending(k) = "" /\ k[4] >= 10 /\ k[6] < 0)
                    => /\ pc'[p] = "done" /\ outcome'[p] = "returned"
                       /\ result'[p] = estimate_llm_cost(file, k[1], k[2], k[3],
                                                         k[4], k[5], 0)
                       /\ result'[p].monthly_cost > 0]_vars

\* C20 witness: estimate_llm_cost for the stored model gpt-4o was called
\* with calls_per_day and days both negative and raised ValueError naming
\* calls_per_day.
C20_Witness ==
    \E p \in Tasks :
        /\ op[p] = "estimate_llm_cost" /\ before[p].text = "whole"
        /\ HasModel(before[p].doc, key[p][1])
        /\ key[p][2] > 0 /\ key[p][3] < 0 /\ key[p][4] < 0
        /\ pc[p] = "failed" /\ outcome[p] = "ValueError"
        /\ result[p].field = "calls_per_day"

\* Every entry of `agents` is complete, names a model of doc and has
\* positive avg_tokens_per_call and calls_per_day.
AllPriceable(doc, agents) ==
    \A i \in 1..Len(agents) :
        /\ AgentFields \subseteq DOMAIN agents[i]
        /\ HasModel(doc, agents[i]["model"])
        /\ agents[i]["avg_tokens_per_call"] > 0 /\ agents[i]["calls_per_day"] > 0

\* C21: for every days > 0 (fractions included) estimate_llm_cost, called
\* on a readable document with a stored model and positive
\* avg_tokens_per_call and calls_per_day, returns a cost computed with an
\* integer days >= 1; and estimate_multi_agent_cost called with a non-empty
\* list of priceable agents and days > 0 does not end in an error.
C21_DaysBecomePositiveInteger ==
    [][\A p \in Tasks :
        /\ ( /\ Begins(p, "estimate_llm_cost") /\ file.text = "whole"
             /\ HasModel(file.doc, key'[p][1])
             /\ key'[p][2] > 0 /\ key'[p][3] > 0 /\ key'[p][4] > 0 )
            => (pc'[p] = "done" /\ result'[p].days >= 1)
        /\ ( /\ Multi(p) /\ pc[p] = "agent" /\ file.text = "whole"
             /\ key[p][1] # <<>> /\ key[p][2] > 0
             /\ AllPriceable(file.doc, key[p][1]) )
            => pc'[p] # "failed"]_vars

\* The reference result of estimate_llm_cost for a pricing record, in units
\* of 1/(400 * 10^6) dollar: tokens = avg * calls * days * (1 + retry),
\* output tokens a quarter of them or none, each cost tokens / 10^6 * price.
\* `days` is the whole number of days, retry_pct the clamped rate in percent.
ReferenceLlm(pricing, avg_tokens_per_call, calls_per_day, days, include_output, retry_pct) ==
    LET tokens100 == avg_tokens_per_call * calls_per_day * days * (100 + retry_pct)
        input_cost == 4 * tokens100 * pricing.input_per_1m
        output_cost == IF include_output THEN tokens100 * pricing.output_per_1m ELSE 0
    IN  [input_cost |-> input_cost, output_cost |-> output_cost,
         monthly_cost |-> input_cost + output_cost]

\* C22: for every stored model and all positive avg_tokens_per_call,
\* calls_per_day and days, estimate_llm_cost returns the reference costs
\* (output_cost 0 without output); 2000 tokens, 50 calls, 30 days at 1 and 2
\* dollars per million give 3, 1.5 and 4.5 dollars, 0.15 dollar a day.
C22_LlmCostIsReference ==
    [][\A p \in Tasks :
        ( /\ Begins(p, "estimate_llm_cost") /\ file.text = "whole"
          /\ HasModel(file.doc, key'[p][1])
          /\ key'[p][2] > 0 /\ key'[p][3] > 0 /\ key'[p][4] > 0 )
        => LET k == key'[p]
               r == result'[p]
               ref == ReferenceLlm(file.doc.pricing.models.dict[k[1]], k[2], k[3],
                                   k[4] \div 10, k[5], Max0(k[6]))
           IN  /\ pc'[p] = "done"
               /\ r.input_cost = ref.input_cost /\ r.output_cost = ref.output_cost
               /\ r.monthly_cost = ref.monthly_cost
               /\ r.days = k[4] \div 10
               /\ ~k[5] => r.output_cost = 0
               /\ ( /\ <<k[2], k[3], k[4], k[5], k[6]>> = <<2000, 50, 300, TRUE, 0>>
                    /\ r.price_per_1m = 1
                    /\ file.doc.pricing.models.dict[k[1]].output_per_1m = 2 )
                    => /\ r.input_cost = 1200000000 /\ r.output_cost = 600000000
                       /\ r.monthly_cost = 1800000000
                       /\ r.monthly_cost \div r.days = 60000000]_vars

\* C23: when estimate_llm_cost returns, its monthly_cost with retry_rate
\* r >= 0 is (1 + r) times the monthly_cost of the same call with
\* retry_rate 0, and with a negative retry_rate it is that monthly_cost.
C23_RetryScalesCost ==
    [][\A p \in Tasks :
        (Begins(p, "estimate_llm_cost") /\ pc'[p] = "done")
        => LET k == key'[p]
               base == estimate_llm_cost(file, k[1], k[2], k[3], k[4], k[5], 0)
           IN  /\ base.exc = "" /\ base.monthly_cost % 100 = 0
               /\ k[6] >= 0 =>
                    result'[p].monthly_cost = (base.monthly_cost \div 100) * (100 + k[6])
               /\ k[6] < 0 => result'[p].monthly_cost = base.monthly_cost]_vars

\* C23 witness: a call with output and retry_rate 0.1 returned a cost.
C23_Witness ==
    \E p \in Tasks :
        /\ op[p] = "estimate_llm_cost" /\ pc[p] = "done"
        /\ key[p][5] /\ key[p][6] = 10
        /\ result[p].output_cost > 0 /\ result[p].input_cost > 0

\* C24: for a stored provider and plan of a readable document and
\* runtime_hours > 0, estimate_server_cost returns, in units of 1/720
\* dollar, base_cost = base_monthly * runtime_hours / 720 (base_monthly at
\* 720 hours), storage and traffic costs of the amounts clamped at 0,
\* monthly_cost their sum and a daily cost over 30 days; runtime_hours <= 0
\* raises ValueError naming runtime_hours.
C24_ServerCostIsReference ==
    [][\A p \in Tasks :
        ( /\ Begins(p, "estimate_server_cost") /\ file.text = "whole"
          /\ HasPlan(file.doc, key'[p][1], key'[p][2]) )
        => LET k == key'[p]
               r == result'[p]
               pricing == file.doc.pricing.servers.dict[k[1]][k[2]]
           IN  IF k[3] <= 0
               THEN /\ pc'[p] = "failed" /\ outcome'[p] = "ValueError"
                    /\ r.field = "runtime_hours"
               ELSE /\ pc'[p] = "done"
                    /\ r.base_cost = pricing.base_monthly * k[3]
                    /\ k[3] = 720 => r.base_cost = 720 * pricing.base_monthly
                    /\ r.storage_cost = 720 * pricing.storage_gb_price * (IF k[4] > 0 THEN k[4] ELSE 0)
                    /\ r.traffic_cost = 720 * pricing.traffic_gb_price * (IF k[5] > 0 THEN k[5] ELSE 0)
                    /\ r.monthly_cost = r.base_cost + r.storage_cost + r.traffic_cost
                    /\ r.days = 30]_vars

\* C24 witness: estimate_server_cost returned a cost for 360 hours of
\* runtime and a negative storage_gb.
C24_Witness ==
    \E p \in Tasks :
        /\ op[p] = "estimate_server_cost" /\ pc[p] = "done"
        /\ key[p][3] = 360 /\ key[p][4] < 0
        /\ result[p].monthly_cost > 0 /\ result[p].storage_cost = 0

\* Document doc without what a refresh is to replace: `pricing` and
\* metadata.last_successful_update set to fixed values.
OutsideRefresh(doc) ==
    [doc EXCEPT !.pricing = [models |-> EmptyDict, servers |-> EmptyDict],
                !.metadata.last_successful_update = Absent]

\* C25: the write that completes a refresh leaves on disk the document the
\* call loaded with only `pricing` and metadata.last_successful_update
\* replaced: defaults, the other top-level sections and the other metadata
\* fields are those of the document before the call.
C25_RefreshFrame ==
    [][\A p \in Tasks :
        (Update(p) /\ pc[p] = "dumping" /\ pc'[p] = "done")
        => /\ file'.text = "whole" /\ before[p].text = "whole"
           /\ OutsideRefresh(file'.doc) = OutsideRefresh(before[p].doc)
           /\ file'.doc.defaults = before[p].doc.defaults
           /\ file'.doc.metadata.currency = before[p].doc.metadata.currency
           /\ DOMAIN file'.doc = DOMAIN before[p].doc]_vars

\* C25 witness: a refresh has replaced the pricing of a document in which
\* save_to_database had stored a model before.
C25_Witness ==
    \E p \in Tasks :
        /\ Update(p) /\ pc[p] = "done" /\ wrote[p]
        /\ before[p].doc.llm_models # EmptyDict
        /\ file.text = "whole" /\ file.doc.llm_models = before[p].doc.llm_models
        /\ file.doc.pricing # before[p].doc.pricing

\* C26: should_refresh returns a boolean for every metadata value and never
\* raises, and a non-forced update_pricing_database on a readable document
\* does not fail in its freshness check.
C26_ShouldRefreshIsTotal ==
    [][\A p \in Tasks :
        /\ Begins(p, "should_refresh")
            => (pc'[p] = "done" /\ outcome'[p] \in {"True", "False"})
        /\ (Begins(p, "update_pricing_database") /\ ~force'[p] /\ file.text = "whole")
            => outcome'[p] # "TypeError"]_vars

\* The values pricing.models takes in the documents of the concurrent
\* specification on which a model resolves: the seed's and the keyed
\* payload's.
SnapshotModels ==
    {SeedDocument.pricing.models, DictOf(KeyedPayload.models)}

\* What estimate_multi_agent_cost returns for `agents` when every agent is
\* priced on the one document f.
OnSnapshot(f, agents, days10, r) ==
    /\ r.total_monthly_cost = SumCosts(f, agents, days10)
    /\ \A i \in DOMAIN agents : r.agents[i].cost = AgentCost(f, agents[i], days10)
    /\ \A model \in DOMAIN r.metadata :
            /\ HasModel(f.doc, model)
            /\ r.metadata[model].source = f.doc.pricing.models.dict[model].source
            /\ r.metadata[model].retrieved_at = f.doc.pricing.models.dict[model].retrieved_at

\* C27: the total, breakdown and metadata_snapshot a call of
\* estimate_multi_agent_cost returns are those of the whole call on one
\* document: the one before a refresh that completed during the call, or
\* the one after it.
C27_OneSnapshotPerCall ==
    \A p \in Tasks : (Multi(p) /\ pc[p] = "done") =>
        \E models \in SnapshotModels :
            OnSnapshot(Whole([SeedDocument EXCEPT !.pricing.models = models]),
                       key[p][1], key[p][2], result[p])

\* Task p's save_to_database of an LLM model has reported success.
Saved(p) ==
    op[p] = "save_to_database" /\ outcome[p] = "status:success" /\ key[p][2] = "llm_model"

\* C28: when a save_to_database call and an update_pricing_database call
\* have both completed their writes, whatever their interleaving, the
\* persisted document (no write being in progress) holds the saved entry
\* and the refresh's pricing and stamp; and after two saves it holds both
\* saved entries.
C28_NoLostWrite ==
    (\A r \in Tasks : pc[r] \in {"idle", "done", "failed"}) =>
    \A p, q \in Tasks :
        /\ (Saved(p) /\ Update(q) /\ pc[q] = "done" /\ wrote[q])
            => /\ file.text = "whole"
               /\ key[p][1] \in DOMAIN file.doc.llm_models
               /\ file.doc.pricing = database[q].pricing
               /\ file.doc.metadata.last_successful_update
                    = database[q].metadata.last_successful_update
        /\ (Saved(p) /\ Saved(q))
            => /\ file.text = "whole"
               /\ {key[p][1], key[q][1]} \subseteq DOMAIN file.doc.llm_models

\* The sum of the values of the function d.
RECURSIVE SumValues(_)
SumValues(d) ==
    IF DOMAIN d = {} THEN 0
    ELSE LET k == CHOOSE x \in DOMAIN d : TRUE
         IN  d[k] + SumValues([x \in DOMAIN d \ {k} |-> d[x]])

\* C29: a successful multi_agent answer of calculate_cost_estimate has a
\* breakdown with one key per agent of the input list, and the values of the
\* breakdown add up to the returned monthly_cost.
C29_BreakdownAddsUp ==
    \A p \in Tasks :
        ( /\ Wrapped(p) /\ pc[p] = "done" /\ result[p].status = "success"
          /\ "agents" \in DOMAIN key[p][1] )
        => /\ Cardinality(DOMAIN result[p].breakdown) = Len(key[p][1]["agents"])
           /\ SumValues(result[p].breakdown) = result[p].monthly_cost

Collects(p) == op[p] = "collect_multi_agent_information"

\* Task p makes a call of collect_multi_agent_information in this step: the
\* first of a collection, or the next one with the roster of the last answer.
CollectStep(p) ==
    \/ Begins(p, "collect_multi_agent_information")
    \/ Collects(p) /\ pc[p] = "done" /\ pc'[p] = "done" /\ Collects(p)'

\* The roster an answer carries: the dumped list of a "collecting" answer,
\* validated_data.agents of a "success" answer.
RosterOf(r) ==
    IF r.status = "collecting" THEN ParseCollected(r.collected_agents_json)
    ELSE IF r.status = "success" THEN r.validated_data.agents
    ELSE <<>>

\* C30: a collection starts from an empty roster and each call is given the
\* roster of the answer before it; for total_agents = N >= 1 and fewer than
\* N agents collected, a call with name, purpose and model appends exactly
\* that agent at the end and answers "collecting" while fewer than N are
\* collected and "success", with validated_data.agents the roster in the
\* order of addition, when the N-th is; a call lacking one of the three
\* answers "collecting" with the roster unchanged; the document on disk is
\* not written.
C30_RosterCollection ==
    [][\A p \in Tasks : CollectStep(p) =>
        LET k == key'[p]
            roster == ParseCollected(k[2])
            a == k[3]
            r == result'[p]
        IN  /\ file' = file
            /\ Begins(p, "collect_multi_agent_information") => roster = <<>>
            /\ ~Begins(p, "collect_multi_agent_information")
                    => (k[1] = key[p][1] /\ roster = RosterOf(result[p]))
            /\ (k[1] # None /\ k[1] >= 1 /\ Len(roster) < k[1]) =>
                IF a[1] # "" /\ a[2] # "" /\ a[3] # ""
                THEN /\ r.status = (IF Len(roster) + 1 < k[1] THEN "collecting" ELSE "success")
                     /\ Len(RosterOf(r)) = Len(roster) + 1
                     /\ SubSeq(RosterOf(r), 1, Len(roster)) = roster
                     /\ RosterOf(r)[Len(roster) + 1].name = a[1]
                     /\ RosterOf(r)[Len(roster) + 1].purpose = a[2]
                     /\ RosterOf(r)[Len(roster) + 1].model = a[3]
                     /\ r.status = "success" => r.validated_data.type = "multi_agent"
                ELSE /\ r.status = "collecting"
                     /\ RosterOf(r) = roster]_vars

\* C30 witness: a collection of three agents has ended with "success",
\* the roster holding b, a, b in the order the calls supplied them.
C30_Witness ==
    \E p \in Tasks :
        /\ Collects(p) /\ pc[p] = "done" /\ outcome[p] = "success" /\ key[p][1] = 3
        /\ Len(result[p].validated_data.agents) = 3
        /\ result[p].validated_data.agents[1].name = "b"
        /\ result[p].validated_data.agents[2].name = "a"
        /\ result[p].validated_data.agents[3].name = "b"
        /\ key[p][3][1] = "b"

====
